---- MODULE Spec2Model ----
(***************************************************************************)
(* Bansuri.js: the Standard MIDI File importer (tempo map, tick-to-        *)
(* millisecond conversion, note assembly) and the timed note sequencer     *)
(* that plays the assembled notes with setTimeout.                         *)
(*                                                                         *)
(* JavaScript Numbers are IEEE-754 doubles.  A Number is modelled as a     *)
(* record [k, s, m, e]: k = "num" is the finite value s * m * 2^e, the     *)
(* significand m a natural number kept odd (or zero) so that every value   *)
(* has one representation; k = "nan" and k = "inf" are NaN and             *)
(* +/-Infinity.  Every arithmetic result is rounded to 53 significant      *)
(* bits, ties to even, as the hardware does.  Subnormals and overflow to   *)
(* Infinity are out of the range the program reaches and are not           *)
(* modelled; -0 is identified with +0.                                     *)
(***************************************************************************)
EXTENDS Integers, Sequences, FiniteSets, TLC

\* ------------------------------------------------------------------------
\* Natural numbers of any size (significands do not fit TLC's 32-bit
\* integers): little-endian sequences of 15-bit limbs, no high zero limb.
\* ------------------------------------------------------------------------

Precision == 53
Base      == 2^15
LimbBits  == 15

SetMax(S) == CHOOSE i \in S : \A j \in S : j <= i
SetMin(S) == CHOOSE i \in S : \A j \in S : i <= j

RECURSIVE Pow2(_)
Pow2(n) == IF n <= 0 THEN 1 ELSE 2 * Pow2(n - 1)

LNorm(a) ==
  LET nz == {i \in 1..Len(a) : a[i] # 0}
  IN  IF nz = {} THEN <<>> ELSE SubSeq(a, 1, SetMax(nz))

RECURSIVE LFromNat(_)
LFromNat(n) == IF n = 0 THEN <<>> ELSE <<n % Base>> \o LFromNat(n \div Base)

\* the value of a, for a below 2^31
RECURSIVE LToNatFrom(_, _)
LToNatFrom(a, i) ==
  IF i > Len(a) THEN 0 ELSE a[i] + Base * LToNatFrom(a, i + 1)

LToNat(a) == LToNatFrom(a, 1)

Limb(a, i) == IF i <= Len(a) THEN a[i] ELSE 0

RECURSIVE LAddFrom(_, _, _, _)
LAddFrom(a, b, i, c) ==
  IF i > Len(a) /\ i > Len(b) THEN (IF c = 0 THEN <<>> ELSE <<c>>)
  ELSE LET t == Limb(a, i) + Limb(b, i) + c
       IN  <<t % Base>> \o LAddFrom(a, b, i + 1, t \div Base)

LAdd(a, b) == LAddFrom(a, b, 1, 0)

RECURSIVE LSubFrom(_, _, _, _)
LSubFrom(a, b, i, c) ==
  IF i > Len(a) THEN <<>>
  ELSE LET t == Limb(a, i) - Limb(b, i) - c
       IN  <<t % Base>> \o LSubFrom(a, b, i + 1, IF t < 0 THEN 1 ELSE 0)

\* a - b for a >= b
LSub(a, b) == LNorm(LSubFrom(a, b, 1, 0))

\* -1, 0, 1 as a < b, a = b, a > b
LCmp(a, b) ==
  IF Len(a) # Len(b) THEN (IF Len(a) < Len(b) THEN -1 ELSE 1)
  ELSE LET D == {i \in 1..Len(a) : a[i] # b[i]}
       IN  IF D = {} THEN 0 ELSE IF a[SetMax(D)] < b[SetMax(D)] THEN -1 ELSE 1

\* a * k for 0 <= k <= Base
RECURSIVE LMulSmallFrom(_, _, _, _)
LMulSmallFrom(a, k, i, c) ==
  IF i > Len(a) THEN (IF c = 0 THEN <<>> ELSE <<c>>)
  ELSE LET t == a[i] * k + c
       IN  <<t % Base>> \o LMulSmallFrom(a, k, i + 1, t \div Base)

LMulSmall(a, k) == IF k = 0 THEN <<>> ELSE LMulSmallFrom(a, k, 1, 0)

LShlLimbs(a, n) == IF a = <<>> \/ n <= 0 THEN a ELSE [i \in 1..n |-> 0] \o a

RECURSIVE LMulFrom(_, _, _)
LMulFrom(a, b, i) ==
  IF i > Len(a) THEN <<>>
  ELSE LAdd(LShlLimbs(LMulSmall(b, a[i]), i - 1), LMulFrom(a, b, i + 1))

LMul(a, b) == LMulFrom(a, b, 1)

\* a * 2^n
LShl(a, n) ==
  IF n <= 0 THEN a
  ELSE LShlLimbs(LMulSmall(a, Pow2(n % LimbBits)), n \div LimbBits)

\* long division by 0 < d < 2^16 from limb i down, with rin < d carried in:
\* [q |-> the quotient limbs 1..i, r |-> the remainder]
RECURSIVE LDivFrom(_, _, _, _)
LDivFrom(a, d, i, rin) ==
  IF i = 0 THEN [q |-> <<>>, r |-> rin]
  ELSE LET t    == rin * Base + a[i]
           rest == LDivFrom(a, d, i - 1, t % d)
       IN  [q |-> Append(rest.q, t \div d), r |-> rest.r]

LDivMod(a, d) ==
  LET res == LDivFrom(a, d, Len(a), 0) IN [q |-> LNorm(res.q), r |-> res.r]

\* floor(a / 2^n) and whether anything was shifted out
LShr(a, n) ==
  IF n <= 0 THEN [q |-> a, sticky |-> FALSE]
  ELSE LET nl   == n \div LimbBits
           high == SubSeq(a, nl + 1, Len(a))
           dm   == LDivMod(high, Pow2(n % LimbBits))
       IN  [q |-> dm.q,
            sticky |-> dm.r # 0 \/ (\E i \in 1..nl : Limb(a, i) # 0)]

RECURSIVE IntBitLen(_)
IntBitLen(n) == IF n = 0 THEN 0 ELSE 1 + IntBitLen(n \div 2)

LBitLen(a) ==
  IF a = <<>> THEN 0 ELSE LimbBits * (Len(a) - 1) + IntBitLen(a[Len(a)])

RECURSIVE IntLowZeros(_)
IntLowZeros(n) == IF n % 2 = 1 THEN 0 ELSE 1 + IntLowZeros(n \div 2)

\* number of low zero bits of a # 0
LLowZeros(a) ==
  LET i == SetMin({j \in 1..Len(a) : a[j] # 0})
  IN  LimbBits * (i - 1) + IntLowZeros(a[i])

LOdd(a) == a # <<>> /\ a[1] % 2 = 1

\* ------------------------------------------------------------------------
\* IEEE-754 double arithmetic (round to nearest, ties to even)
\* ------------------------------------------------------------------------

FNaN    == [k |-> "nan", s |-> 1, m |-> <<>>, e |-> 0]
FInf(s) == [k |-> "inf", s |-> s, m |-> <<>>, e |-> 0]
FZero   == [k |-> "num", s |-> 1, m |-> <<>>, e |-> 0]

IsNum(x)  == x.k = "num"
IsZero(x) == x.k = "num" /\ x.m = <<>>

\* s * M * 2^e with M of at most 53 bits, significand made odd
FCanon(s, M, e) ==
  IF M = <<>> THEN FZero
  ELSE LET tz == LLowZeros(M)
       IN  [k |-> "num", s |-> s, m |-> LShr(M, tz).q, e |-> e + tz]

\* the double nearest to s * M * 2^e (+ a non-zero tail below M if sticky)
\* sh1 is M without the bits below the rounding bit, kept the 53 bits above
FRoundKept(s, sh1, kept, e, sticky) ==
  FCanon(s,
         IF LOdd(sh1.q) /\ (sticky \/ sh1.sticky \/ LOdd(kept))
         THEN LAdd(kept, <<1>>) ELSE kept,
         e)

FRoundShifted(s, sh1, e, sticky) ==
  FRoundKept(s, sh1, LShr(sh1.q, 1).q, e, sticky)

\* L is the bit length of M
FRoundBits(s, M, e, sticky, L) ==
  IF L <= Precision THEN FCanon(s, M, e)
  ELSE FRoundShifted(s, LShr(M, L - Precision - 1), e + (L - Precision), sticky)

FRound(s, M, e, sticky) == FRoundBits(s, M, e, sticky, LBitLen(M))

FromInt(n) ==
  IF n < 0 THEN FCanon(-1, LFromNat(-n), 0) ELSE FCanon(1, LFromNat(n), 0)

FNeg(x) == IF x.k = "nan" \/ IsZero(x) THEN x ELSE [x EXCEPT !.s = -x.s]

\* magnitudes of two finite numbers brought to the common exponent e
FAlign(x, y) ==
  LET e0 == IF x.e < y.e THEN x.e ELSE y.e
  IN  [a |-> LShl(x.m, x.e - e0), b |-> LShl(y.m, y.e - e0), e |-> e0]

\* -1, 0, 1 comparing two finite numbers
FCmp(x, y) ==
  IF IsZero(x) /\ IsZero(y) THEN 0
  ELSE IF IsZero(x) THEN -y.s
  ELSE IF IsZero(y) THEN x.s
  ELSE IF x.s # y.s THEN x.s
  ELSE LET al == FAlign(x, y) IN x.s * LCmp(al.a, al.b)

\* the sum of two finite non-zero numbers aligned as al, c comparing their
\* magnitudes: the larger magnitude gives the sign, equal ones cancel to +0
FAddAligned(x, y, al, c) ==
  FRound(IF x.s = y.s \/ c >= 0 THEN x.s ELSE y.s,
         IF x.s = y.s THEN LAdd(al.a, al.b)
         ELSE IF c >= 0 THEN LSub(al.a, al.b) ELSE LSub(al.b, al.a),
         al.e, FALSE)

FAddFinite(x, y, al) == FAddAligned(x, y, al, LCmp(al.a, al.b))

FAdd(x, y) ==
  IF x.k = "nan" \/ y.k = "nan" THEN FNaN
  ELSE IF x.k = "inf" /\ y.k = "inf" THEN (IF x.s = y.s THEN x ELSE FNaN)
  ELSE IF x.k = "inf" THEN x
  ELSE IF y.k = "inf" THEN y
  ELSE IF IsZero(x) THEN y
  ELSE IF IsZero(y) THEN x
  ELSE FAddFinite(x, y, FAlign(x, y))

FSub(x, y) == FAdd(x, FNeg(y))

FMul(x, y) ==
  IF x.k = "nan" \/ y.k = "nan" THEN FNaN
  ELSE IF x.k = "inf" \/ y.k = "inf"
       THEN (IF IsZero(x) \/ IsZero(y) THEN FNaN ELSE FInf(x.s * y.s))
  ELSE IF IsZero(x) \/ IsZero(y) THEN FZero
  ELSE FRound(x.s * y.s, LMul(x.m, y.m), x.e + y.e, FALSE)

\* x / y.  The divisor's significand is taken as an integer below 2^16:
\* the program divides by the file's division (16 bits), by 1000 and by
\* the tempo multiplier (a multiple of 0.25 up to 2) only.
FDiv(x, y) ==
  IF x.k = "nan" \/ y.k = "nan" THEN FNaN
  ELSE IF x.k = "inf" THEN (IF y.k = "inf" THEN FNaN ELSE FInf(x.s * y.s))
  ELSE IF y.k = "inf" THEN FZero
  ELSE IF IsZero(y) THEN (IF IsZero(x) THEN FNaN ELSE FInf(x.s * y.s))
  ELSE IF IsZero(x) THEN FZero
  ELSE
    LET sh == Precision + 3 + LBitLen(y.m) - LBitLen(x.m)
        k  == IF sh > 0 THEN sh ELSE 0
        dm == LDivMod(LShl(x.m, k), LToNat(y.m))
    IN  FRound(x.s * y.s, dm.q, x.e - y.e - k, dm.r # 0)

\* Math.max(x, y)
FMax(x, y) ==
  IF x.k = "nan" \/ y.k = "nan" THEN FNaN
  ELSE IF x.k = "inf" THEN (IF x.s = 1 THEN x ELSE y)
  ELSE IF y.k = "inf" THEN (IF y.s = 1 THEN y ELSE x)
  ELSE IF FCmp(x, y) >= 0 THEN x ELSE y

\* x <= y and x < y as JavaScript evaluates them (false when either is NaN)
FLe(x, y) ==
  /\ x.k # "nan" /\ y.k # "nan"
  /\ IF x.k = "inf" THEN x.s = -1 \/ (y.k = "inf" /\ y.s = 1)
     ELSE IF y.k = "inf" THEN y.s = 1
     ELSE FCmp(x, y) <= 0

FLt(x, y) == FLe(x, y) /\ x # y

\* the integer part of a finite number below 2^31 (truncation toward zero)
FTrunc(x) ==
  IF IsZero(x) THEN 0
  ELSE IF x.e >= 0 THEN x.s * LToNat(LShl(x.m, x.e))
  ELSE x.s * LToNat(LShr(x.m, -x.e).q)

\* ------------------------------------------------------------------------
\* The bytes of a file: a sequence of integers 0..255, offsets from 0.
\* ------------------------------------------------------------------------

RangeError == "Offset is outside the bounds of the DataView"

\* DataView.getUint8; -1 stands for the RangeError it throws out of bounds
getUint8(view, o) == IF o >= 0 /\ o < Len(view) THEN view[o + 1] ELSE -1

InBounds(view, o, n) == o >= 0 /\ n >= 0 /\ o + n <= Len(view)

\* big-endian reads (the caller has checked the bounds)
getUint16(view, o) == view[o + 1] * 256 + view[o + 2]

getUint32(view, o) ==
  ((view[o + 1] * 256 + view[o + 2]) * 256 + view[o + 3]) * 256 + view[o + 4]

readChunkType(view, o) ==
  <<getUint8(view, o), getUint8(view, o + 1),
    getUint8(view, o + 2), getUint8(view, o + 3)>>

MThd == <<77, 84, 104, 100>>
MTrk == <<77, 84, 114, 107>>

\* (value << 7) | byte: the continuation bit is not masked off
VLQShiftUnmasked(value, byte) ==
  LET u == value % 33554432
  IN  IF u >= 16777216
      THEN (u - 16777216) * 128 + byte - 2147483647 - 1
      ELSE u * 128 + byte

\* (value << 7) | (byte & 0x7F) on 32-bit signed integers
VLQShift(value, byte) ==
  LET u == value % 33554432           \* the 25 bits that survive the shift
  IN  IF u >= 16777216
      THEN (u - 16777216) * 128 + (byte % 128) - 2147483647 - 1
      ELSE u * 128 + (byte % 128)

\* the do-while loop of readVLQ, entered with the bytes read so far
RECURSIVE readVLQLoop(_, _, _, _)
readVLQLoop(view, offset, value, bytesRead) ==
  LET byte == getUint8(view, offset + bytesRead)
  IN  IF byte < 0 THEN [ok |-> FALSE, value |-> 0, bytesRead |-> 0]
      ELSE IF byte >= 128
           THEN readVLQLoop(view, offset, VLQShift(value, byte), bytesRead + 1)
      ELSE [ok |-> TRUE, value |-> VLQShift(value, byte),
            bytesRead |-> bytesRead + 1]

readVLQ(view, offset) == readVLQLoop(view, offset, 0, 0)

NoStatus == -1      \* runningStatus === null

BlankEvent ==
  [deltaTime |-> 0, type |-> "none", metaType |-> -1, data |-> <<>>,
   tempo |-> -1, channel |-> -1, subtype |-> "none", note |-> -1,
   velocity |-> -1, data1 |-> -1, data2 |-> -1]

Fail(msg) == [ok |-> FALSE, error |-> msg]

\* new Uint8Array(view.buffer, offset, length)
Uint8ArrayOf(view, offset, length) == SubSeq(view, offset + 1, offset + length)

\* twoByteEvent with the subtype taken from the status alone
twoByteEventByStatus(ev, status, data1, data2) ==
  IF status = 8
  THEN [ev EXCEPT !.data1 = data1, !.data2 = data2,
          !.subtype = "noteOff", !.note = data1, !.velocity = data2]
  ELSE IF status = 9
  THEN [ev EXCEPT !.data1 = data1, !.data2 = data2,
          !.subtype = "noteOn", !.note = data1, !.velocity = data2]
  ELSE [ev EXCEPT !.data1 = data1, !.data2 = data2]

\* the two-byte events of readTrack: a Note-On of velocity 0 is a Note-Off
twoByteEvent(ev, status, data1, data2) ==
  IF status = 8 \/ (status = 9 /\ data2 = 0)
  THEN [ev EXCEPT !.data1 = data1, !.data2 = data2,
          !.subtype = "noteOff", !.note = data1, !.velocity = data2]
  ELSE IF status = 9
  THEN [ev EXCEPT !.data1 = data1, !.data2 = data2,
          !.subtype = "noteOn", !.note = data1, !.velocity = data2]
  ELSE [ev EXCEPT !.data1 = data1, !.data2 = data2]

\* one pass of the while loop of readTrack: the event at offset
readEvent(view, offset0, runningStatus) ==
  LET deltaTime == readVLQ(view, offset0)
      offset1   == offset0 + deltaTime.bytesRead
      first     == getUint8(view, offset1)
      eventType == IF first < 128 THEN runningStatus ELSE first
      offset    == IF first < 128 THEN offset1 ELSE offset1 + 1
      event     == [BlankEvent EXCEPT !.deltaTime = deltaTime.value]
  IN
  IF ~deltaTime.ok \/ first < 0 THEN Fail(RangeError)
  ELSE IF first < 128 /\ runningStatus = NoStatus
       THEN Fail("Running status without previous status")
  ELSE IF eventType = 255 THEN
    LET metaType == getUint8(view, offset)
        length   == readVLQ(view, offset + 1)
        dataAt   == offset + 1 + length.bytesRead
        data     == Uint8ArrayOf(view, dataAt, length.value)
    IN  IF metaType < 0 \/ ~length.ok THEN Fail(RangeError)
        ELSE IF ~InBounds(view, dataAt, length.value)
             THEN Fail("Invalid typed array length")
        ELSE [ok |-> TRUE, newOffset |-> dataAt + length.value,
              runningStatus |-> runningStatus,
              event |-> [event EXCEPT
                 !.type = "meta", !.metaType = metaType, !.data = data,
                 !.tempo = IF metaType = 81 /\ length.value = 3
                           THEN (data[1] * 256 + data[2]) * 256 + data[3]
                           ELSE -1]]
  ELSE IF eventType = 240 \/ eventType = 247 THEN
    LET length == readVLQ(view, offset)
        dataAt == offset + length.bytesRead
    IN  IF ~length.ok THEN Fail(RangeError)
        ELSE IF ~InBounds(view, dataAt, length.value)
             THEN Fail("Invalid typed array length")
        ELSE [ok |-> TRUE, newOffset |-> dataAt + length.value,
              runningStatus |-> runningStatus,
              event |-> [event EXCEPT !.type = "sysex",
                 !.data = Uint8ArrayOf(view, dataAt, length.value)]]
  ELSE
    LET status  == eventType \div 16
        channel == eventType % 16
        data1   == getUint8(view, offset)
        data2   == getUint8(view, offset + 1)
        ev      == [event EXCEPT !.type = "channel", !.channel = channel]
    IN  IF status \in {8, 9, 10, 11, 14} THEN
          IF data1 < 0 \/ data2 < 0 THEN Fail(RangeError)
          ELSE [ok |-> TRUE, newOffset |-> offset + 2,
                runningStatus |-> eventType,
                event |-> twoByteEvent(ev, status, data1, data2)]
        ELSE IF status \in {12, 13} THEN
          IF data1 < 0 THEN Fail(RangeError)
          ELSE [ok |-> TRUE, newOffset |-> offset + 1,
                runningStatus |-> eventType,
                event |-> [ev EXCEPT !.data1 = data1]]
        ELSE [ok |-> TRUE, newOffset |-> offset,
              runningStatus |-> runningStatus, event |-> ev]

\* the while loop of readTrack; pushEvent is the end of one pass, r the
\* event read in it
RECURSIVE readEvents(_, _, _, _, _)
\* pushEvent with the status byte of a meta or SysEx event kept as running
\* status too
pushEventAnyStatus(view, trackEnd, events, r) ==
  IF ~r.ok THEN r
  ELSE readEvents(view, r.newOffset, trackEnd,
                  IF r.event.type = "meta" THEN 255
                  ELSE IF r.event.type = "sysex" THEN 240
                  ELSE r.runningStatus,
                  Append(events, r.event))

pushEvent(view, trackEnd, events, r) ==
  IF ~r.ok THEN r
  ELSE readEvents(view, r.newOffset, trackEnd, r.runningStatus,
                  Append(events, r.event))

readEvents(view, offset, trackEnd, runningStatus, events) ==
  IF ~(offset < trackEnd) THEN [ok |-> TRUE, events |-> events,
                                newOffset |-> offset]
  ELSE pushEvent(view, trackEnd, events, readEvent(view, offset, runningStatus))

\* readTrack with the test of the chunk tag left out
readTrackAnyTag(view, offset) ==
  IF ~InBounds(view, offset, 8) THEN Fail(RangeError)
  ELSE readEvents(view, offset + 8, offset + 8 + getUint32(view, offset + 4),
                  NoStatus, <<>>)

\* readTrack entered with a Note-On status left over as running status
readTrackStatusKept(view, offset) ==
  IF ~InBounds(view, offset, 8) THEN Fail(RangeError)
  ELSE IF readChunkType(view, offset) # MTrk
       THEN Fail("Invalid track: Missing MTrk header")
  ELSE readEvents(view, offset + 8, offset + 8 + getUint32(view, offset + 4),
                  144, <<>>)

readTrack(view, offset) ==
  LET chunkType == readChunkType(view, offset)
  IN  IF \E i \in 1..4 : chunkType[i] < 0 THEN Fail(RangeError)
      ELSE IF chunkType # MTrk THEN Fail("Invalid track: Missing MTrk header")
      ELSE IF ~InBounds(view, offset + 4, 4) THEN Fail(RangeError)
      ELSE LET trackLength == getUint32(view, offset + 4)
           IN  readEvents(view, offset + 8, offset + 8 + trackLength,
                          NoStatus, <<>>)

\* ------------------------------------------------------------------------
\* Tempo map, tick-to-millisecond conversion, note assembly.  Ticks are
\* sums of 32-bit deltas, exact as doubles: they are kept as integers.
\* ------------------------------------------------------------------------

RECURSIVE SumDeltas(_, _)
SumDeltas(track, n) ==
  IF n = 0 THEN 0 ELSE SumDeltas(track, n - 1) + track[n].deltaTime

\* the events of one track with their absolute ticks (tick += deltaTime)
WithTicks(track) ==
  [n \in 1..Len(track) |-> [tick |-> SumDeltas(track, n), event |-> track[n]]]

RECURSIVE Flatten(_, _)
Flatten(tracks, n) ==
  IF n = 0 THEN <<>> ELSE Flatten(tracks, n - 1) \o WithTicks(tracks[n])

\* Array.prototype.sort((a, b) => a.tick - b.tick): stable, by tick
SortByTick(evs) ==
  LET Before(i, j) == evs[i].tick < evs[j].tick
                      \/ (evs[i].tick = evs[j].tick /\ i < j)
      Rank(i)      == Cardinality({j \in 1..Len(evs) : Before(j, i)}) + 1
  IN  [r \in 1..Len(evs) |-> evs[CHOOSE i \in 1..Len(evs) : Rank(i) = r]]

DefaultTempo == 500000

\* buildTempoMap that adds the default tempo to an empty map only
buildTempoMapDefaultIfEmpty(tracks, division) ==
  LET allEvents  == SortByTick(Flatten(tracks, Len(tracks)))
      IsTempo(x) == x.event.type = "meta" /\ x.event.metaType = 81
                    /\ x.event.tempo > 0
      changes    == SelectSeq(allEvents, IsTempo)
      tempoMap   == [n \in 1..Len(changes) |->
                       [tick |-> changes[n].tick, tempo |-> changes[n].event.tempo]]
  IN  IF Len(tempoMap) = 0
      THEN <<[tick |-> 0, tempo |-> DefaultTempo]>>
      ELSE tempoMap

buildTempoMap(tracks, division) ==
  LET allEvents  == SortByTick(Flatten(tracks, Len(tracks)))
      IsTempo(x) == x.event.type = "meta" /\ x.event.metaType = 81
                    /\ x.event.tempo > 0
      changes    == SelectSeq(allEvents, IsTempo)
      tempoMap   == [n \in 1..Len(changes) |->
                       [tick |-> changes[n].tick, tempo |-> changes[n].event.tempo]]
  IN  IF Len(tempoMap) = 0 \/ tempoMap[1].tick # 0
      THEN <<[tick |-> 0, tempo |-> DefaultTempo]>> \o tempoMap
      ELSE tempoMap

\* the first tempo applied to every tick, the tempo changes ignored
ticksToMsSingleRate(ticks, division, tempoMap) ==
  FDiv(FMul(FromInt(ticks),
            FDiv(FromInt(tempoMap[1].tempo), FromInt(division))),
       FromInt(1000))

\* ms += (ticks * microsecondsPerTick) / 1000, with
\* microsecondsPerTick = tempo / division
addSegment(ms, ticks, tempo, division) ==
  FAdd(ms, FDiv(FMul(FromInt(ticks), FDiv(FromInt(tempo), FromInt(division))),
                FromInt(1000)))

\* the while loop of ticksToMilliseconds (tempoIndex counts from 1 here) and
\* the remaining ticks after it
RECURSIVE ticksToMsLoop(_, _, _, _, _, _)
ticksToMsLoop(ticks, division, tempoMap, ms, currentTick, tempoIndex) ==
  IF tempoIndex < Len(tempoMap) /\ tempoMap[tempoIndex + 1].tick <= ticks
  THEN ticksToMsLoop(ticks, division, tempoMap,
         addSegment(ms, tempoMap[tempoIndex + 1].tick - currentTick,
                    tempoMap[tempoIndex].tempo, division),
         tempoMap[tempoIndex + 1].tick, tempoIndex + 1)
  ELSE addSegment(ms, ticks - currentTick, tempoMap[tempoIndex].tempo, division)

ticksToMilliseconds(ticks, division, tempoMap) ==
  ticksToMsLoop(ticks, division, tempoMap, FZero, 0, 1)

MinDuration == 100

\* the note pushed when activeNote ends at endTime; its type ('note') and
\* noteName (a function of midiNote) are left out
closedNote(index, activeNote, endTime) ==
  [index |-> index, midiNote |-> activeNote.midiNote,
   startTime |-> activeNote.startTime,
   duration |-> FMax(FSub(endTime, activeNote.startTime), FromInt(MinDuration))]

\* setActive that leaves an entry already open as it is
setActiveIfAbsent(activeNotes, event, startTime) ==
  [k \in DOMAIN activeNotes \cup {<<event.channel, event.note>>} |->
     IF k \in DOMAIN activeNotes
     THEN activeNotes[k]
     ELSE [midiNote |-> event.note, startTick |-> event.tick,
           startTime |-> startTime, channel |-> event.channel]]

\* activeNotes.set(key, {...}) for a Note-On: a new entry, or the entry of
\* its key replaced
setActive(activeNotes, event, startTime) ==
  [k \in DOMAIN activeNotes \cup {<<event.channel, event.note>>} |->
     IF k = <<event.channel, event.note>>
     THEN [midiNote |-> event.note, startTick |-> event.tick,
           startTime |-> startTime, channel |-> event.channel]
     ELSE activeNotes[k]]

\* the matching loop of assembleNotes from event n on; activeNotes is the
\* Map from <<channel, note>> to the open entry.
RECURSIVE matchNotes(_, _, _, _, _, _)
\* matchNotes in which a Note-Off without an open entry emits a note too,
\* one that starts at the Note-Off
matchNotesAnyOff(allEvents, n, division, tempoMap, activeNotes, assembled) ==
  IF n > Len(allEvents) THEN assembled
  ELSE
    LET event == allEvents[n]
        key   == <<event.channel, event.note>>
        entry == [midiNote |-> event.note, startTick |-> event.tick,
                  startTime |-> ticksToMilliseconds(event.tick, division, tempoMap),
                  channel |-> event.channel]
    IN
    IF event.subtype = "noteOn" /\ event.velocity > 0 THEN
      matchNotes(allEvents, n + 1, division, tempoMap,
        [k \in DOMAIN activeNotes \cup {key} |->
           IF k = key THEN entry ELSE activeNotes[k]],
        assembled)
    ELSE
      matchNotes(allEvents, n + 1, division, tempoMap,
        [k \in DOMAIN activeNotes \ {key} |-> activeNotes[k]],
        Append(assembled,
               closedNote(Len(assembled),
                          IF key \in DOMAIN activeNotes
                          THEN activeNotes[key] ELSE entry,
                          entry.startTime)))

matchNotes(allEvents, n, division, tempoMap, activeNotes, assembled) ==
  IF n > Len(allEvents) THEN assembled
  ELSE
    LET event == allEvents[n]
        key   == <<event.channel, event.note>>
    IN
    IF event.subtype = "noteOn" /\ event.velocity > 0 THEN
      matchNotes(allEvents, n + 1, division, tempoMap,
        setActive(activeNotes, event,
                  ticksToMilliseconds(event.tick, division, tempoMap)),
        assembled)
    ELSE IF (event.subtype = "noteOff"
             \/ (event.subtype = "noteOn" /\ event.velocity = 0))
            /\ key \in DOMAIN activeNotes THEN
      matchNotes(allEvents, n + 1, division, tempoMap,
        [k \in DOMAIN activeNotes \ {key} |-> activeNotes[k]],
        Append(assembled,
               closedNote(Len(assembled), activeNotes[key],
                          ticksToMilliseconds(event.tick, division, tempoMap))))
    ELSE matchNotes(allEvents, n + 1, division, tempoMap, activeNotes, assembled)

assembleNotes(tracks, division, tempoMap) ==
  LET IsNote(x) == x.event.type = "channel"
                   /\ x.event.subtype \in {"noteOn", "noteOff"}
      picked    == SelectSeq(Flatten(tracks, Len(tracks)), IsNote)
      allEvents == SortByTick(
                     [n \in 1..Len(picked) |->
                        [tick |-> picked[n].tick,
                         channel |-> picked[n].event.channel,
                         subtype |-> picked[n].event.subtype,
                         note |-> picked[n].event.note,
                         velocity |-> picked[n].event.velocity]])
  IN  matchNotes(allEvents, 1, division, tempoMap, <<>>, <<>>)

\* the track loop of parseMIDI; pushTrack is the end of one pass, track the
\* result of readTrack in it
RECURSIVE readTracks(_, _, _, _)
pushTrack(view, remaining, tracks, track) ==
  IF ~track.ok THEN track
  ELSE readTracks(view, track.newOffset, remaining - 1,
                  Append(tracks, track.events))

readTracks(view, offset, remaining, tracks) ==
  IF remaining = 0 THEN [ok |-> TRUE, tracks |-> tracks]
  ELSE pushTrack(view, remaining, tracks, readTrack(view, offset))

\* the object parseMIDI returns; tracks (parseMIDI's local array of the
\* events readTrack returned) is kept with it as history
midiFile(format, trackCount, division, tracks, tempoMap) ==
  [ok |-> TRUE, format |-> format, trackCount |-> trackCount,
   division |-> division, tempoMap |-> tempoMap,
   notes |-> assembleNotes(tracks, division, tempoMap),
   tracks |-> tracks]

\* parseMIDI after its track loop, read the result of the loop
parseTracks(format, trackCount, division, read) ==
  IF ~read.ok THEN read
  ELSE midiFile(format, trackCount, division, read.tracks,
                buildTempoMap(read.tracks, division))

\* parseMIDI with some of its checks left out (reads beyond the end of the
\* buffer throw a RangeError)
parseMIDIChecking(view, size, smpte) ==
  IF size /\ Len(view) < 14
  THEN Fail("File too small to be a valid MIDI file")
  ELSE IF readChunkType(view, 0) # MThd
       THEN Fail("Invalid MIDI file: Missing MThd header")
  ELSE IF ~InBounds(view, 0, 14) THEN Fail(RangeError)
  ELSE IF smpte /\ getUint16(view, 12) >= 32768
       THEN Fail("SMPTE timing format not supported")
  ELSE parseTracks(getUint16(view, 8), getUint16(view, 10),
                   getUint16(view, 12),
                   readTracks(view, 14, getUint16(view, 10), <<>>))

parseMIDIAnySize(view)     == parseMIDIChecking(view, FALSE, TRUE)
parseMIDIAnyDivision(view) == parseMIDIChecking(view, TRUE, FALSE)

\* view is the DataView over the arrayBuffer
parseMIDI(view) ==
  IF Len(view) < 14 THEN Fail("File too small to be a valid MIDI file")
  ELSE IF readChunkType(view, 0) # MThd
       THEN Fail("Invalid MIDI file: Missing MThd header")
  ELSE IF getUint16(view, 12) >= 32768
       THEN Fail("SMPTE timing format not supported")
  ELSE parseTracks(getUint16(view, 8), getUint16(view, 10),
                   getUint16(view, 12),
                   readTracks(view, 14, getUint16(view, 10), <<>>))

\* ------------------------------------------------------------------------
\* Files given to the parser: Standard MIDI File bytes written out from a
\* list of tracks, each a list of [d |-> delta ticks, bytes |-> the event].
\* ------------------------------------------------------------------------

U16(n) == <<n \div 256, n % 256>>
U32(n) == <<n \div 16777216, (n \div 65536) % 256, (n \div 256) % 256, n % 256>>

RECURSIVE VLQHigh(_)
VLQHigh(n) == IF n = 0 THEN <<>> ELSE VLQHigh(n \div 128) \o <<128 + (n % 128)>>

VLQ(n) == VLQHigh(n \div 128) \o <<n % 128>>

NoteOnEv(d, ch, note, vel) == [d |-> d, bytes |-> <<144 + ch, note, vel>>]
NoteOffEv(d, ch, note)     == [d |-> d, bytes |-> <<128 + ch, note, 64>>]
SetTempoEv(d, t) ==
  [d |-> d, bytes |-> <<255, 81, 3, t \div 65536, (t \div 256) % 256, t % 256>>]

RECURSIVE EventBytes(_, _)
EventBytes(evs, n) ==
  IF n = 0 THEN <<>>
  ELSE EventBytes(evs, n - 1) \o VLQ(evs[n].d) \o evs[n].bytes

TrackBytes(evs) ==
  LET body == EventBytes(evs, Len(evs)) IN MTrk \o U32(Len(body)) \o body

RECURSIVE TracksBytes(_, _)
TracksBytes(tracks, n) ==
  IF n = 0 THEN <<>> ELSE TracksBytes(tracks, n - 1) \o TrackBytes(tracks[n])

FileBytes(division, tracks) ==
  MThd \o U32(6) \o U16(IF Len(tracks) > 1 THEN 1 ELSE 0)
       \o U16(Len(tracks)) \o U16(division) \o TracksBytes(tracks, Len(tracks))

\* ------------------------------------------------------------------------
\* State
\* ------------------------------------------------------------------------

VARIABLES
  arrayBuffer,          \* the file handed to parseMIDI (<<>> before a load)
  midiData,             \* what parseMIDI returned or threw (state.midiData)
  fileStatus,           \* createMIDIFileInput: class and text of the status line
  conv,                 \* an argument list of ticksToMilliseconds
  convMs,               \* and its result
  notes,                \* createTimedNoteSequencer: let notes
  currentIndex,
  isPlaying,
  tempoMultiplier,
  playbackStartTime,
  playbackStartOffset,
  disabled,             \* .disabled of prevBtn, playBtn, pauseBtn, stopBtn, nextBtn
  timers,               \* the browser's pending setTimeout callbacks, in
                        \* registration order; listed = id is in scheduledTimeouts
  now,                  \* Date.now()
  playedLog,            \* history: indices announced since the last stop()
  firedSincePlay,       \* history: indices announced since the last play()
  staleRan,             \* history: a callback that outlived a pause()/stop() took effect
  interruptions,        \* history: what interrupted playback since the last stop()
  leftAtPause,          \* history: wall delay each pending note had left at pause()
  resumedWith,          \* history: wall delay play() gave each of them afterwards
  isFilePlayback,       \* state.isFilePlayback of the page
  deviceBlocked,        \* history: the last MIDI-device event was dropped
  cleanPlay,            \* history: play() was entered in the state the sequencer
                        \* starts in and no user operation has followed
  ops,                  \* history: number of user operations so far
  practice              \* the practice page: its PracticeSequencer with the
                        \* pending setTimeout callbacks, its state object,
                        \* .disabled of its buttons, and history

vars == <<arrayBuffer, midiData, fileStatus, conv, convMs, notes, currentIndex, isPlaying,
          tempoMultiplier, playbackStartTime, playbackStartOffset, disabled,
          timers, now, playedLog, firedSincePlay, staleRan, interruptions,
          leftAtPause, resumedWith, isFilePlayback, deviceBlocked,
          cleanPlay, ops, practice>>

parseVars == <<arrayBuffer, midiData, fileStatus>>
convVars  == <<conv, convMs>>
seqVars   == <<notes, currentIndex, isPlaying, tempoMultiplier,
               playbackStartTime, playbackStartOffset, disabled, timers, now,
               playedLog, firedSincePlay, staleRan, interruptions, leftAtPause,
               resumedWith, isFilePlayback, deviceBlocked,
          cleanPlay, ops>>

NoData   == [ok |-> FALSE, error |-> "none"]

\* the status line of the file input: 'No file loaded' at first, then
\* 'Loaded: name (n notes)' or 'Error: message'
NoFile == [className |-> "file-status", count |-> -1, message |-> ""]
StatusAfter(r) ==
  IF r.ok
  THEN [className |-> "file-status success", count |-> Len(r.notes), message |-> ""]
  ELSE [className |-> "file-status error", count |-> -1, message |-> r.error]
NoConv   == [ticks |-> 0, division |-> 1, tempoMap |-> <<>>]
NoDelays == [m |-> FNaN, t |-> -1, delay |-> <<>>]

\* the sequencer as createTimedNoteSequencer leaves it
SeqInit ==
  /\ notes = <<>>
  /\ currentIndex = 0
  /\ isPlaying = FALSE
  /\ tempoMultiplier = FromInt(1)
  /\ playbackStartTime = 0
  /\ playbackStartOffset = FZero
  /\ disabled = [prev |-> TRUE, play |-> TRUE, pause |-> TRUE,
                 stop |-> TRUE, next |-> TRUE]
  /\ timers = <<>>
  /\ now = 0
  /\ playedLog = <<>>
  /\ firedSincePlay = <<>>
  /\ staleRan = FALSE
  /\ interruptions = {}
  /\ leftAtPause = NoDelays
  /\ resumedWith = NoDelays
  /\ isFilePlayback = FALSE
  /\ deviceBlocked = FALSE
  /\ cleanPlay = FALSE
  /\ ops = 0

\* ------------------------------------------------------------------------
\* The timed sequencer.  Handlers are functions from the sequencer's state
\* (a record of the variables above) to its state after the handler.
\* ------------------------------------------------------------------------

Self ==
  [notes |-> notes, currentIndex |-> currentIndex, isPlaying |-> isPlaying,
   tempoMultiplier |-> tempoMultiplier,
   playbackStartTime |-> playbackStartTime,
   playbackStartOffset |-> playbackStartOffset, disabled |-> disabled,
   timers |-> timers, playedLog |-> playedLog,
   firedSincePlay |-> firedSincePlay, staleRan |-> staleRan,
   interruptions |-> interruptions, leftAtPause |-> leftAtPause,
   resumedWith |-> resumedWith, isFilePlayback |-> isFilePlayback,
   deviceBlocked |-> deviceBlocked, cleanPlay |-> cleanPlay]

Becomes(s) ==
  /\ notes' = s.notes
  /\ currentIndex' = s.currentIndex
  /\ isPlaying' = s.isPlaying
  /\ tempoMultiplier' = s.tempoMultiplier
  /\ playbackStartTime' = s.playbackStartTime
  /\ playbackStartOffset' = s.playbackStartOffset
  /\ disabled' = s.disabled
  /\ timers' = s.timers
  /\ playedLog' = s.playedLog
  /\ firedSincePlay' = s.firedSincePlay
  /\ staleRan' = s.staleRan
  /\ interruptions' = s.interruptions
  /\ leftAtPause' = s.leftAtPause
  /\ resumedWith' = s.resumedWith
  /\ isFilePlayback' = s.isFilePlayback
  /\ deviceBlocked' = s.deviceBlocked
  /\ cleanPlay' = s.cleanPlay

\* setTimeout's delay: a WebIDL long, negative values run at once
TimeoutDelay(x) ==
  IF ~IsNum(x) THEN 0 ELSE IF FTrunc(x) < 0 THEN 0 ELSE FTrunc(x)

\* the pending callbacks of kind "note" whose ids are in scheduledTimeouts
PendingNotes(tms) ==
  {n \in 1..Len(tms) : tms[n].listed /\ tms[n].kind = "note"}

\* the wall delay each of them has left at time t, by note index
DelaysLeft(tms, t) ==
  [i \in {tms[n].i : n \in PendingNotes(tms)} |->
     LET n == CHOOSE n \in PendingNotes(tms) : tms[n].i = i
     IN  tms[n].due - t]

\* scheduledTimeouts = [] with the clearTimeout calls left out
clearForgetsTimeouts(s) ==
  [s EXCEPT !.timers = [n \in 1..Len(s.timers) |->
                          [s.timers[n] EXCEPT !.listed = FALSE, !.stale = TRUE]]]

\* clearTimeout on every id of scheduledTimeouts; callbacks that survive a
\* cancellation are marked stale (history)
clearScheduledNotes(s) ==
  LET kept == SelectSeq(s.timers, LAMBDA t : ~t.listed)
  IN  [s EXCEPT !.timers = [n \in 1..Len(kept) |-> [kept[n] EXCEPT !.stale = TRUE]]]

stop(s) ==
  LET c == clearScheduledNotes([s EXCEPT !.isPlaying = FALSE])
  IN  [c EXCEPT !.currentIndex = 0,
                !.playbackStartOffset = FZero,
                !.disabled = [prev |-> TRUE, play |-> Len(s.notes) = 0,
                              pause |-> TRUE, stop |-> TRUE,
                              next |-> Len(s.notes) = 0],
                !.playedLog = <<>>,
                !.interruptions = {},
                !.leftAtPause = NoDelays,
                !.resumedWith = NoDelays,
                !.cleanPlay = FALSE]

pause(s, t) ==
  LET c       == clearScheduledNotes([s EXCEPT !.isPlaying = FALSE])
      elapsed == FDiv(FromInt(t - s.playbackStartTime), s.tempoMultiplier)
  IN  [c EXCEPT !.disabled.play = FALSE,
                !.disabled.pause = TRUE,
                !.playbackStartOffset =
                   IF Len(s.notes) > 0 /\ s.currentIndex < Len(s.notes)
                   THEN FAdd(s.playbackStartOffset, elapsed)
                   ELSE s.playbackStartOffset,
                !.leftAtPause = [m |-> s.tempoMultiplier, t |-> t,
                                 delay |-> DelaysLeft(s.timers, t)],
                !.resumedWith = NoDelays,
                !.cleanPlay = FALSE]

\* the timers play() registers for the notes from index i on
RECURSIVE scheduleFrom(_, _, _, _)
scheduleFrom(s, t, startOffset, i) ==
  IF i >= Len(s.notes) THEN <<>>
  ELSE
    LET note             == s.notes[i + 1]
        tempoScale       == FDiv(FromInt(1), s.tempoMultiplier)
        adjustedStart    == FMul(FSub(note.startTime, startOffset), tempoScale)
        adjustedDuration == FMul(note.duration, tempoScale)
    IN  <<[kind |-> "note", i |-> i, note |-> note,
           adjustedDuration |-> adjustedDuration,
           due |-> t + TimeoutDelay(adjustedStart),
           listed |-> TRUE, stale |-> FALSE]>>
        \o scheduleFrom(s, t, startOffset, i + 1)

play(s, t) ==
  IF Len(s.notes) = 0 THEN s
  ELSE
    LET startOffset ==
          IF IsZero(s.playbackStartOffset) /\ s.currentIndex < Len(s.notes)
          THEN s.notes[s.currentIndex + 1].startTime
          ELSE s.playbackStartOffset
        scheduled == scheduleFrom(s, t, startOffset, s.currentIndex)
    IN  [s EXCEPT !.isPlaying = TRUE,
                  !.disabled = [prev |-> TRUE, play |-> TRUE, pause |-> FALSE,
                                stop |-> FALSE, next |-> TRUE],
                  !.playbackStartOffset = startOffset,
                  !.playbackStartTime = t,
                  !.timers = s.timers \o scheduled,
                  !.firedSincePlay = <<>>,
                  !.resumedWith = [m |-> s.tempoMultiplier, t |-> t,
                                   delay |-> DelaysLeft(scheduled, t)],
                  !.cleanPlay = /\ ~s.isPlaying
                                /\ s.currentIndex = 0
                                /\ IsZero(s.playbackStartOffset)
                                /\ s.timers = <<>>
                                /\ s.playedLog = <<>>
                                /\ s.interruptions = {}]

next(s) ==
  IF s.currentIndex < Len(s.notes) - 1
  THEN [s EXCEPT !.currentIndex = s.currentIndex + 1]
  ELSE s

\* setNotes without its call of stop()
setNotesNoStop(s, newNotes) ==
  [s EXCEPT !.notes = newNotes,
            !.currentIndex = 0,
            !.disabled.play = Len(newNotes) = 0,
            !.disabled.prev = TRUE,
            !.disabled.next = Len(newNotes) = 0]

setNotes(s, newNotes) ==
  LET c == stop([s EXCEPT !.notes = newNotes, !.currentIndex = 0])
  IN  [c EXCEPT !.disabled.play = Len(newNotes) = 0,
                !.disabled.prev = TRUE,
                !.disabled.next = Len(newNotes) = 0]

setTempoMultiplier(s, t, multiplier) ==
  LET wasPlaying == s.isPlaying
      p == IF wasPlaying THEN pause(s, t) ELSE s
      q == [p EXCEPT !.tempoMultiplier = multiplier]
  IN  IF wasPlaying
      THEN [play(q, t) EXCEPT !.interruptions = s.interruptions \cup {"tempo"},
                              !.cleanPlay = FALSE]
      ELSE q

\* the callback play() hands to setTimeout for note i; onNoteChange is
\* handleSequencerNoteChange, which copies sequencer.isPlaying() to
\* state.isFilePlayback
noteCallback(s, t, tm) ==
  IF ~s.isPlaying THEN s
  ELSE
    LET a == [s EXCEPT !.currentIndex = tm.i,
                       !.isFilePlayback = s.isPlaying,
                       !.playedLog = Append(s.playedLog, tm.i),
                       !.firedSincePlay = Append(s.firedSincePlay, tm.i),
                       !.staleRan = s.staleRan \/ tm.stale]
    IN  IF tm.i = Len(s.notes) - 1
        THEN [a EXCEPT !.timers = Append(a.timers,
                [kind |-> "end", i |-> tm.i, note |-> tm.note,
                 adjustedDuration |-> tm.adjustedDuration,
                 due |-> t + TimeoutDelay(tm.adjustedDuration),
                 listed |-> FALSE, stale |-> FALSE])]
        ELSE a

\* the callback the last note's callback hands to setTimeout
endCallback(s, tm) ==
  IF s.isPlaying THEN stop([s EXCEPT !.staleRan = s.staleRan \/ tm.stale])
  ELSE s

\* ------------------------------------------------------------------------
\* Inputs and bounds
\* ------------------------------------------------------------------------

MaxOps    == 5       \* user operations in one behaviour
MaxClock  == 300     \* Date.now() stops advancing here (ms)
ClockStep == 100     \* the clock advances by at most this much at a time (ms)
MaxEvents == 4       \* events per track of the files given to the parser
MaxTempos == 3       \* entries of the tempo maps given to ticksToMilliseconds
MaxRunEvents == 3    \* events per track of the files that use running status
MaxTempoEvents == 3  \* events per track of the files that change the tempo
MaxRawEvents == 2    \* events per track of the files with delta times given in bytes
MaxZeroEvents == 3   \* events per track of the files with Note-Ons of velocity 0

\* values of the Playback Speed slider (0.25 .. 2.0 in steps of 0.25) used
Multipliers == {FromInt(1), FromInt(2), FDiv(FromInt(1), FromInt(2))}

\* two notes one after the other: 0-100 ms and 100-200 ms
TwoNotesFile ==
  FileBytes(480, << <<NoteOnEv(0, 0, 60, 100), NoteOffEv(96, 0, 60),
                      NoteOnEv(0, 0, 62, 100), NoteOffEv(96, 0, 62)>> >>)

\* a note (0-100 ms), then a long note (100-300 ms) held over a short one
\* (200-300 ms) that ends first
HeldNoteFile ==
  FileBytes(480, << <<NoteOnEv(0, 0, 60, 100), NoteOffEv(96, 0, 60),
                      NoteOnEv(0, 0, 55, 100), NoteOnEv(96, 0, 62, 100),
                      NoteOffEv(96, 0, 62), NoteOffEv(0, 0, 55)>> >>)

\* a short note, then a note of pitch 55 from tick 15 to tick 125 held over
\* a note of pitch 62 that starts and ends at tick 125
LateNoteFile ==
  FileBytes(480, << <<NoteOnEv(0, 0, 60, 100), NoteOffEv(10, 0, 60),
                      NoteOnEv(5, 0, 55, 100), NoteOnEv(110, 0, 62, 100),
                      NoteOffEv(0, 0, 62), NoteOffEv(0, 0, 55)>> >>)

\* a file parseMIDI rejects: its division is a SMPTE one (0x8000)
SmpteFile ==
  FileBytes(32768, << <<NoteOnEv(0, 0, 60, 100), NoteOffEv(96, 0, 60)>> >>)

PlaybackFiles == <<TwoNotesFile, HeldNoteFile, SmpteFile, LateNoteFile>>

\* what parseMIDI makes of each of them
Parsed == <<parseMIDI(PlaybackFiles[1]), parseMIDI(PlaybackFiles[2]),
            parseMIDI(PlaybackFiles[3]), parseMIDI(PlaybackFiles[4])>>

\* the files given to the parser: one track of up to MaxEvents Note-On and
\* Note-Off events on two pitches, at the tick of the event before or a
\* quarter note (at division 480) later; division 0 is a header the parser
\* does not reject
Pitches   == {60, 62}
Deltas    == {0, 480}
Divisions == {0, 96, 480}

EventAlphabet ==
  {NoteOnEv(d, 0, p, 100) : d \in Deltas, p \in Pitches}
    \cup {NoteOffEv(d, 0, p) : d \in Deltas, p \in Pitches}

ParseFiles ==
  {FileBytes(dv, <<track>>) :
     dv \in Divisions,
     track \in UNION {[1..n -> EventAlphabet] : n \in 0..MaxEvents}}

\* files that are cut short or carry a wrong chunk tag or an SMPTE division:
\* every prefix of a file of no, one or two tracks, and every such file with
\* one byte of a chunk tag replaced
SmpteDivisions == {32768, 59176}     \* 0x8000 and 0xE728 (25 fps, 40 ticks)

OnePair(p) == <<NoteOnEv(0, 0, p, 100), NoteOffEv(480, 0, p)>>

BaseFiles ==
  {FileBytes(dv, ts) :
     dv \in {480} \cup SmpteDivisions,
     ts \in {<<>>, <<OnePair(60)>>, <<OnePair(60), OnePair(62)>>}}

Prefixes(f) == {SubSeq(f, 1, n) : n \in 0..Len(f)}

\* the offsets (from 0) of the chunk tags of a file of BaseFiles
\* (a track of one pair is a chunk of 17 bytes)
TagOffsets(f) == {o \in {0, 14, 31} : o + 4 <= Len(f)}

Retagged(f) ==
  {[f EXCEPT ![o + i] = b] : o \in TagOffsets(f), i \in 1..4, b \in {0, 77}}

OddFiles ==
  UNION {Prefixes(f) : f \in BaseFiles} \cup UNION {Retagged(f) : f \in BaseFiles}

\* files that use running status: tracks of up to MaxRunEvents events, each
\* a Note-On on channel 0, a Note-Off on channel 1, a Set-Tempo, a SysEx, or
\* two data bytes without a status byte (a velocity of 100 or of 0); one
\* track, or a track of at most one event followed by a second track
RunningAlphabet ==
  {[d |-> 0, bytes |-> b] :
     b \in {<<144, 60, 100>>, <<129, 60, 64>>, <<62, 100>>, <<62, 0>>,
            <<255, 81, 3, 7, 161, 32>>, <<240, 1, 0>>}}

RunningTracks(n) == UNION {[1..k -> RunningAlphabet] : k \in 0..n}

RunningFiles ==
  {FileBytes(480, <<t>>) : t \in RunningTracks(MaxRunEvents)}
    \cup {FileBytes(480, <<t1, t2>>) :
            t1 \in RunningTracks(1), t2 \in RunningTracks(MaxRunEvents - 1)}

\* files that change the tempo: tracks of up to MaxTempoEvents events, each
\* a Set-Tempo (of 250000, 1000000 or 0 microseconds per quarter note) at
\* the tick of the event before or 480 ticks later, a tempo meta event of
\* two data bytes, or a Note-On 480 ticks later; one track, or a track of at
\* most one event followed by a second track
TempoAlphabet ==
  {SetTempoEv(d, t) : d \in Deltas, t \in {0, 250000, 1000000}}
    \cup {[d |-> 0, bytes |-> <<255, 81, 2, 7, 161>>],
          NoteOnEv(480, 0, 60, 100)}

TempoTracks(n) == UNION {[1..k -> TempoAlphabet] : k \in 0..n}

TempoFiles ==
  {FileBytes(480, <<t>>) : t \in TempoTracks(MaxTempoEvents)}
    \cup {FileBytes(480, <<t1, t2>>) :
            t1 \in TempoTracks(1), t2 \in TempoTracks(MaxTempoEvents - 1)}

\* files whose delta times are given byte by byte: one track of up to
\* MaxRawEvents events, each a Note-On, a Note-Off or a Set-Tempo after a
\* variable-length quantity of one to six bytes (0, 127, 128, the largest of
\* four bytes 0x0FFFFFFF, two of five bytes that reach bit 31 (0xFFFFFF80
\* and 0xFFFFFFFF), and one of six bytes whose first digit is shifted out)
DeltaBytes ==
  {<<0>>, <<127>>, <<129, 0>>, <<255, 255, 255, 127>>,
   <<143, 255, 255, 255, 0>>, <<143, 255, 255, 255, 127>>,
   <<129, 128, 128, 128, 128, 0>>}

RawAlphabet ==
  {db \o b : db \in DeltaBytes,
             b \in {<<144, 60, 100>>, <<128, 60, 64>>,
                    <<255, 81, 3, 3, 208, 144>>}}

RECURSIVE Concat(_, _)
Concat(ss, n) == IF n = 0 THEN <<>> ELSE Concat(ss, n - 1) \o ss[n]

RawBodies ==
  {Concat(evs, Len(evs)) :
     evs \in UNION {[1..k -> RawAlphabet] : k \in 0..MaxRawEvents}}

RawFile(body) ==
  MThd \o U32(6) \o U16(0) \o U16(1) \o U16(480)
       \o MTrk \o U32(Len(body)) \o body

RawFiles == {RawFile(body) : body \in RawBodies}

\* files with Note-Ons of velocity 0: one track of up to MaxZeroEvents
\* events on pitch 60, each a Note-On, a Note-On of velocity 0, a Note-Off,
\* or two data bytes without a status byte (of velocity 0 or 100)
ZeroAlphabet ==
  {NoteOnEv(d, 0, 60, 100) : d \in Deltas}
    \cup {NoteOnEv(d, 0, 60, 0) : d \in Deltas}
    \cup {NoteOffEv(480, 0, 60),
          [d |-> 480, bytes |-> <<60, 0>>], [d |-> 0, bytes |-> <<60, 100>>]}

ZeroTracks == UNION {[1..k -> ZeroAlphabet] : k \in 0..MaxZeroEvents}

ZeroFiles == {FileBytes(480, <<t>>) : t \in ZeroTracks}

\* files whose first track declares a length that is not the length of its
\* events (a Note-On and a Note-Off, nine bytes): any length from 0 to ten
\* bytes, in a file of that track alone or with a second track after it
LengthFile(declared, more) ==
  MThd \o U32(6) \o U16(IF Len(more) > 0 THEN 1 ELSE 0)
       \o U16(1 + Len(more)) \o U16(480)
       \o MTrk \o U32(declared) \o EventBytes(OnePair(60), 2)
       \o TracksBytes(more, Len(more))

LengthFiles ==
  {LengthFile(declared, more) :
     declared \in 0..(Len(EventBytes(OnePair(60), 2)) + 1),
     more \in {<<>>, <<OnePair(62)>>}}

\* the arguments given to ticksToMilliseconds: tempo maps as buildTempoMap
\* makes them (first entry at tick 0, ticks in non-decreasing order)
ConvTicks     == {0, 240, 480, 960}
ConvTempos    == {250000, 500000}
ConvDivisions == {96, 480}

TempoMaps ==
  {tm \in UNION {[1..n -> [tick : {0, 480, 720}, tempo : ConvTempos]] :
                   n \in 1..MaxTempos} :
     /\ tm[1].tick = 0
     /\ \A n \in 1..(Len(tm) - 1) : tm[n].tick <= tm[n + 1].tick}

NoResult == [k |-> "none", s |-> 1, m |-> <<>>, e |-> 0]

\* ------------------------------------------------------------------------
\* The practice page: class PracticeSequencer, the page's state object and
\* its handlers.  Times are whole milliseconds; a timer holds the time it
\* has left, and sincePlay is Date.now() - playbackStartTime.
\* ------------------------------------------------------------------------

MaxPracticeOps == 4      \* user operations on the practice page in one run
MaxPracticeClock == 4000 \* largest Date.now() - playbackStartTime followed
PracticeStep == 500      \* longest time that passes in one step

\* entries of the shape of PRACTICE_PATTERNS; beats2 is twice the beats of
\* each note (the patterns use 0.5, 1 and 2 beats among others)
PRACTICE_PATTERNS ==
  << [tempo |-> 120, beats2 |-> <<2, 2, 4>>],
     [tempo |-> 60,  beats2 |-> <<1, 2>>] >>

\* positions of the tempo slider used; both give a whole beatDuration
PracticeBPMs == {60, 120}

RECURSIVE patternNotes(_, _, _)
patternNotes(beats2, beatDuration, currentTime) ==
  IF beats2 = <<>> THEN <<>>
  ELSE LET duration == (Head(beats2) * beatDuration) \div 2
       IN  <<[startTime |-> currentTime, duration |-> duration]>>
           \o patternNotes(Tail(beats2), beatDuration, currentTime + duration)

\* pattern 0 is no pattern
patternToNoteSequence(pattern, bpm) ==
  IF pattern = 0 THEN <<>>
  ELSE patternNotes(PRACTICE_PATTERNS[pattern].beats2, 60000 \div bpm, 0)

PracticeSequencer_clearTimeouts(p) ==
  [p EXCEPT !.sequencer.timers = SelectSeq(@, LAMBDA tm : ~tm.listed)]

PracticeSequencer_stop(p) ==
  [PracticeSequencer_clearTimeouts(p) EXCEPT
     !.sequencer.isPlaying = FALSE,
     !.sequencer.isPaused = FALSE,
     !.sequencer.currentIndex = 0,
     !.sequencer.playbackStartOffset = 0]

PracticeSequencer_play(p) ==
  LET s == p.sequencer
      n == Len(s.sequence)
  IN  IF n = 0 THEN p
      ELSE
        LET startOffset ==
              IF s.playbackStartOffset = 0 /\ s.currentIndex < n
              THEN s.sequence[s.currentIndex + 1].startTime
              ELSE s.playbackStartOffset
            scheduled ==
              [k \in 1..(n - s.currentIndex) |->
                 LET i     == s.currentIndex + k - 1
                     note  == s.sequence[i + 1]
                     delay == note.startTime - startOffset
                 IN  [kind |-> "note", i |-> i,
                      left |-> IF delay < 0 THEN 0 ELSE delay,
                      listed |-> TRUE, duration |-> note.duration]]
        IN  [p EXCEPT
               !.sequencer.isPlaying = TRUE,
               !.sequencer.isPaused = FALSE,
               !.sequencer.playbackStartOffset = startOffset,
               !.sequencer.sincePlay = 0,
               !.sequencer.timers = @ \o scheduled,
               !.hist.passLog = <<>>]

PracticeSequencer_pause(p) ==
  LET s == p.sequencer
      q == PracticeSequencer_clearTimeouts(p)
  IN  [q EXCEPT
         !.sequencer.isPlaying = FALSE,
         !.sequencer.isPaused = TRUE,
         !.sequencer.playbackStartOffset =
            IF s.currentIndex < Len(s.sequence) THEN @ + s.sincePlay ELSE @]

PracticeSequencer_restart(p) ==
  PracticeSequencer_play(PracticeSequencer_stop(p))

PracticeSequencer_setSequence(p, sequence) ==
  [PracticeSequencer_stop(p) EXCEPT
     !.sequencer.sequence = sequence,
     !.sequencer.currentIndex = 0]

PracticeSequencer_setLoop(p, enabled) ==
  [p EXCEPT !.sequencer.loopEnabled = enabled]

\* the callback play() registers for note i
practiceNoteCallback(p, tm) ==
  IF ~p.sequencer.isPlaying THEN p
  ELSE LET q == [p EXCEPT !.sequencer.currentIndex = tm.i,
                          !.hist.passLog = Append(@, tm.i)]
       IN  IF tm.i = Len(p.sequencer.sequence) - 1
           THEN [q EXCEPT !.sequencer.timers =
                   Append(@, [kind |-> "end", i |-> tm.i, left |-> tm.duration,
                              listed |-> FALSE, duration |-> tm.duration])]
           ELSE q

\* the end callback with the loop test left out
practiceEndCallbackNoLoop(p) ==
  IF p.sequencer.isPlaying THEN PracticeSequencer_stop(p) ELSE p

\* the callback the last note's callback registers
practiceEndCallback(p) ==
  IF p.sequencer.isPlaying /\ p.sequencer.loopEnabled
  THEN [PracticeSequencer_restart(p) EXCEPT !.hist.restarted = TRUE]
  ELSE IF p.sequencer.isPlaying THEN PracticeSequencer_stop(p)
  ELSE p

\* playbackControls.setPlaying
setPlaying(p, playing) ==
  [p EXCEPT !.buttons = [playBtn |-> playing, pauseBtn |-> ~playing,
                         stopBtn |-> ~playing]]

regenerateSequence(p) ==
  PracticeSequencer_setSequence(p,
    patternToNoteSequence(p.state.currentPattern, p.state.currentBPM))

handleTempoChange(p, bpm) ==
  LET wasPlaying == p.state.isPlaying
      p1 == [p EXCEPT !.state.currentBPM = bpm]
      p2 == IF wasPlaying
            THEN [PracticeSequencer_stop(p1) EXCEPT !.state.isPlaying = FALSE]
            ELSE p1
      p3 == regenerateSequence(p2)
  IN  IF wasPlaying
      THEN setPlaying([PracticeSequencer_play(p3) EXCEPT
                         !.state.isPlaying = TRUE], TRUE)
      ELSE p3

handlePatternSelect(p, pattern) ==
  LET p1 == IF p.state.isPlaying
            THEN setPlaying([PracticeSequencer_stop(p) EXCEPT
                               !.state.isPlaying = FALSE], FALSE)
            ELSE p
      p2 == [p1 EXCEPT !.state.currentPattern = pattern,
                       !.state.currentBPM = PRACTICE_PATTERNS[pattern].tempo]
  IN  regenerateSequence(
        handleTempoChange(p2, PRACTICE_PATTERNS[pattern].tempo))

handleKeyChange(p) ==
  LET p1 == IF p.state.isPlaying
            THEN setPlaying([PracticeSequencer_stop(p) EXCEPT
                               !.state.isPlaying = FALSE], FALSE)
            ELSE p
  IN  regenerateSequence(p1)

handlePlay(p) ==
  IF p.state.currentPattern = 0 THEN p
  ELSE setPlaying([PracticeSequencer_play(p) EXCEPT
                     !.state.isPlaying = TRUE], TRUE)

handlePause(p) ==
  setPlaying([PracticeSequencer_pause(p) EXCEPT
                !.state.isPlaying = FALSE,
                !.state.isPaused = TRUE], FALSE)

handleStop(p) ==
  setPlaying([PracticeSequencer_stop(p) EXCEPT
                !.state.isPlaying = FALSE,
                !.state.isPaused = FALSE], FALSE)

handleLoopChange(p, enabled) ==
  PracticeSequencer_setLoop([p EXCEPT !.state.loopEnabled = enabled], enabled)

\* the page after init(): a new PracticeSequencer, the buttons as
\* createPlaybackControls leaves them, and loadPreferences with nothing
\* saved, which selects the first pattern
PracticeConstructed ==
  [sequencer |-> [sequence |-> <<>>, currentIndex |-> 0, isPlaying |-> FALSE,
                  isPaused |-> FALSE, loopEnabled |-> FALSE,
                  playbackStartOffset |-> 0, sincePlay |-> 0,
                  timers |-> <<>>],
   state     |-> [currentPattern |-> 0, currentBPM |-> 80,
                  isPlaying |-> FALSE, isPaused |-> FALSE,
                  loopEnabled |-> FALSE],
   buttons   |-> [playBtn |-> FALSE, pauseBtn |-> TRUE, stopBtn |-> TRUE],
   hist      |-> [passLog |-> <<>>, quiet |-> FALSE, restarted |-> FALSE,
                  pops |-> 0]]

PracticeInit == handlePatternSelect(PracticeConstructed, 1)

\* ------------------------------------------------------------------------
\* The MIDI page: file loads, button clicks, the speed slider, tab switches,
\* timers.  A timer runs when its time has come, the earliest first and
\* timers of equal time in registration order; user events may come at any
\* moment in between.  prevBtn is never enabled by any handler, so there is
\* no click on it.
\* ------------------------------------------------------------------------

Init ==
  /\ arrayBuffer = <<>>
  /\ midiData = NoData
  /\ fileStatus = NoFile
  /\ conv = NoConv
  /\ convMs = NoResult
  /\ SeqInit
  /\ practice = PracticeInit

UserOp ==
  /\ ops < MaxOps
  /\ ops' = ops + 1
  /\ UNCHANGED <<now, conv, convMs, practice>>

\* LoadFile with onParsed called from the catch block too, with no notes
LoadFileAlways(k) ==
  /\ UserOp
  /\ arrayBuffer' = PlaybackFiles[k]
  /\ fileStatus' = StatusAfter(Parsed[k])
  /\ IF Parsed[k].ok
     THEN /\ midiData' = Parsed[k]
          /\ Becomes(setNotes(Self, Parsed[k].notes))
     ELSE /\ midiData' = Parsed[k]
          /\ Becomes(setNotes(Self, <<>>))

\* the change handler of the file input, then handleMIDIFileParsed
LoadFile(k) ==
  /\ UserOp
  /\ arrayBuffer' = PlaybackFiles[k]
  /\ fileStatus' = StatusAfter(Parsed[k])
  /\ IF Parsed[k].ok
     THEN /\ midiData' = Parsed[k]
          /\ Becomes(setNotes(Self, Parsed[k].notes))
     ELSE /\ midiData' = midiData
          /\ Becomes(Self)

ClickPlay ==
  /\ ~disabled.play
  /\ UserOp
  /\ Becomes(play(Self, now))
  /\ UNCHANGED parseVars

ClickPause ==
  /\ ~disabled.pause
  /\ UserOp
  /\ Becomes([pause(Self, now) EXCEPT
                !.interruptions = interruptions \cup {"pause"}])
  /\ UNCHANGED parseVars

ClickStop ==
  /\ ~disabled.stop
  /\ UserOp
  /\ Becomes(stop(Self))
  /\ UNCHANGED parseVars

ClickNext ==
  /\ ~disabled.next
  /\ UserOp
  /\ Becomes(next(Self))
  /\ UNCHANGED parseVars

\* the tab buttons' click handler, switching to the device tab
SwitchToDeviceTab ==
  /\ UserOp
  /\ Becomes([stop(Self) EXCEPT !.isFilePlayback = FALSE])
  /\ UNCHANGED parseVars

\* a Note-On or Note-Off of the MIDI device: dropped while
\* state.isFilePlayback is set, handled otherwise
DeviceEvent ==
  /\ Becomes([Self EXCEPT !.deviceBlocked = isFilePlayback])
  /\ UNCHANGED <<now, ops, parseVars, convVars, practice>>

\* the slider's input handler, then handleTempoChange
ChangeTempo(m) ==
  /\ UserOp
  /\ Becomes(setTempoMultiplier(Self, now, m))
  /\ UNCHANGED parseVars

\* position in timers of the callback to run next, 0 if none is due
DueTimer ==
  LET due == {n \in 1..Len(timers) : timers[n].due <= now}
  IN  IF due = {} THEN 0
      ELSE CHOOSE n \in due :
             \A k \in due : timers[n].due < timers[k].due
                            \/ (timers[n].due = timers[k].due /\ n <= k)

RemoveAt(seq, n) == SubSeq(seq, 1, n - 1) \o SubSeq(seq, n + 1, Len(seq))

TimerFires ==
  /\ DueTimer # 0
  /\ LET tm   == timers[DueTimer]
         rest == [Self EXCEPT !.timers = RemoveAt(timers, DueTimer)]
     IN  IF tm.kind = "note"
         THEN Becomes(noteCallback(rest, now, tm))
         ELSE Becomes(endCallback(rest, tm))
  /\ UNCHANGED <<now, ops, parseVars, convVars, practice>>

\* time passes, up to the next callback's time; the clock is read only
\* while callbacks are pending
Advance ==
  /\ timers # <<>>
  /\ DueTimer = 0
  /\ LET dues   == {timers[n].due : n \in 1..Len(timers)}
         target == IF SetMin(dues) <= now + ClockStep
                   THEN SetMin(dues) ELSE now + ClockStep
     IN  /\ target <= MaxClock
         /\ now' = target
  /\ UNCHANGED <<notes, currentIndex, isPlaying, tempoMultiplier,
                 playbackStartTime, playbackStartOffset, disabled, timers,
                 playedLog, firedSincePlay, staleRan, interruptions,
                 leftAtPause, resumedWith, isFilePlayback, deviceBlocked,
                 cleanPlay, ops, parseVars, convVars, practice>>

Next ==
  \/ \E k \in DOMAIN PlaybackFiles : LoadFile(k)
  \/ ClickPlay
  \/ ClickPause
  \/ ClickStop
  \/ ClickNext
  \/ SwitchToDeviceTab
  \/ \E m \in Multipliers : ChangeTempo(m)
  \/ DeviceEvent
  \/ TimerFires
  \/ Advance

Spec == Init /\ [][Next]_vars

\* ------------------------------------------------------------------------
\* parseMIDI applied to a file
\* ------------------------------------------------------------------------

InitParse ==
  /\ arrayBuffer \in ParseFiles \cup OddFiles \cup RunningFiles \cup TempoFiles
                    \cup RawFiles \cup ZeroFiles \cup LengthFiles
  /\ midiData = NoData
  /\ fileStatus = NoFile
  /\ conv = NoConv
  /\ convMs = NoResult
  /\ SeqInit
  /\ practice = PracticeInit

\* the try block of the file input's change handler, up to onParsed
Parse ==
  /\ midiData = NoData
  /\ midiData' = parseMIDI(arrayBuffer)
  /\ fileStatus' = StatusAfter(midiData')
  /\ UNCHANGED <<arrayBuffer, convVars, seqVars, practice>>

NextParse == Parse

SpecParse == InitParse /\ [][NextParse]_vars

\* ------------------------------------------------------------------------
\* ticksToMilliseconds applied to a tick, a division and a tempo map
\* ------------------------------------------------------------------------

InitConv ==
  /\ conv \in [ticks : ConvTicks, division : ConvDivisions, tempoMap : TempoMaps]
  /\ convMs = NoResult
  /\ arrayBuffer = <<>>
  /\ midiData = NoData
  /\ fileStatus = NoFile
  /\ SeqInit
  /\ practice = PracticeInit

Convert ==
  /\ convMs = NoResult
  /\ convMs' = ticksToMilliseconds(conv.ticks, conv.division, conv.tempoMap)
  /\ UNCHANGED <<conv, parseVars, seqVars, practice>>

NextConv == Convert

SpecConv == InitConv /\ [][NextConv]_vars

\* ------------------------------------------------------------------------
\* The practice page: clicks, the tempo slider, the selectors, timers.  A
\* button that is disabled takes no click.
\* ------------------------------------------------------------------------

PracticeOp(p) ==
  [p EXCEPT !.hist.pops = @ + 1, !.hist.quiet = FALSE, !.hist.restarted = FALSE]

PracticeUserStep(handled) ==
  /\ practice.hist.pops < MaxPracticeOps
  /\ practice' = handled
  /\ UNCHANGED <<parseVars, convVars, seqVars>>

\* the sequencer is as setSequence left it and no callback is pending
PracticeAtRest(p) ==
  /\ ~p.sequencer.isPlaying
  /\ ~p.sequencer.isPaused
  /\ p.sequencer.currentIndex = 0
  /\ p.sequencer.playbackStartOffset = 0
  /\ p.sequencer.timers = <<>>

PracticeClickPlay ==
  /\ ~practice.buttons.playBtn
  /\ PracticeUserStep([handlePlay(PracticeOp(practice)) EXCEPT
                      !.hist.quiet = PracticeAtRest(practice)])

PracticeClickPause ==
  /\ ~practice.buttons.pauseBtn
  /\ PracticeUserStep(handlePause(PracticeOp(practice)))

PracticeClickStop ==
  /\ ~practice.buttons.stopBtn
  /\ PracticeUserStep(handleStop(PracticeOp(practice)))

PracticeToggleLoop ==
  PracticeUserStep(handleLoopChange(PracticeOp(practice),
                                 ~practice.state.loopEnabled))

PracticeChangeTempo(bpm) ==
  /\ bpm # practice.state.currentBPM
  /\ PracticeUserStep(handleTempoChange(PracticeOp(practice), bpm))

PracticeSelectPattern(pattern) ==
  /\ pattern # practice.state.currentPattern
  /\ PracticeUserStep(handlePatternSelect(PracticeOp(practice), pattern))

PracticeChangeKey ==
  PracticeUserStep(handleKeyChange(PracticeOp(practice)))

\* position in the timers of the callback to run next, 0 if none is due
PracticeDueTimer ==
  LET tms == practice.sequencer.timers
      due == {n \in 1..Len(tms) : tms[n].left = 0}
  IN  IF due = {} THEN 0 ELSE SetMin(due)

PracticeTimerFires ==
  /\ PracticeDueTimer # 0
  /\ LET tm   == practice.sequencer.timers[PracticeDueTimer]
         rest == [practice EXCEPT !.sequencer.timers =
                    RemoveAt(@, PracticeDueTimer)]
     IN  practice' = IF tm.kind = "note"
                     THEN practiceNoteCallback(rest, tm)
                     ELSE practiceEndCallback(rest)
  /\ UNCHANGED <<parseVars, convVars, seqVars>>

\* time passes, up to the next callback's time
PracticeAdvance ==
  /\ PracticeDueTimer = 0
  /\ LET tms  == practice.sequencer.timers
         near == IF tms = <<>> THEN PracticeStep
                 ELSE SetMin({tms[n].left : n \in 1..Len(tms)})
         d    == IF near <= PracticeStep THEN near ELSE PracticeStep
     IN  /\ practice.sequencer.sincePlay + d <= MaxPracticeClock
         /\ practice' = [practice EXCEPT
              !.sequencer.sincePlay = @ + d,
              !.sequencer.timers =
                 [n \in 1..Len(tms) |-> [tms[n] EXCEPT !.left = @ - d]]]
  /\ UNCHANGED <<parseVars, convVars, seqVars>>

InitPractice ==
  /\ arrayBuffer = <<>>
  /\ midiData = NoData
  /\ fileStatus = NoFile
  /\ conv = NoConv
  /\ convMs = NoResult
  /\ SeqInit
  /\ practice = PracticeInit

NextPractice ==
  \/ PracticeClickPlay
  \/ PracticeClickPause
  \/ PracticeClickStop
  \/ PracticeToggleLoop
  \/ \E bpm \in PracticeBPMs : PracticeChangeTempo(bpm)
  \/ \E pattern \in DOMAIN PRACTICE_PATTERNS : PracticeSelectPattern(pattern)
  \/ PracticeChangeKey
  \/ PracticeTimerFires
  \/ PracticeAdvance

SpecPractice == InitPractice /\ [][NextPractice]_vars

\* the browser runs a callback whose time has come, and time passes
SpecPracticeLive ==
  /\ InitPractice
  /\ [][NextPractice]_vars
  /\ WF_vars(PracticeTimerFires)
  /\ WF_vars(PracticeAdvance)

\* ------------------------------------------------------------------------
\* Properties of the parser (under SpecParse)
\* ------------------------------------------------------------------------

SortedByStart(ns) ==
  \A i, j \in 1..Len(ns) : i < j => FLe(ns[i].startTime, ns[j].startTime)

\* C1: the notes parseMIDI returns are in non-decreasing order of startTime,
\* whatever the order of the Note-Off events in the file.  Stated for files
\* whose division is positive, where every startTime is a finite number.
C1_NotesSortedByStart ==
  (midiData.ok /\ midiData.division > 0) => SortedByStart(midiData.notes)

\* C2: every note parseMIDI returns has a duration of at least 100 ms.
C2_DurationAtLeast100 ==
  midiData.ok =>
    \A n \in 1..Len(midiData.notes) :
      FLe(FromInt(100), midiData.notes[n].duration)

\* one track holding a Note-On at tick a and the Note-Off of the same pitch
\* d ticks later
PairFile(dv, a, d, p) ==
  FileBytes(dv, << <<NoteOnEv(a, 0, p, 100), NoteOffEv(d, 0, p)>> >>)

C4ExampleFile == PairFile(480, 0, 480, 60)

\* the time of tick x at the default tempo, in the order the code
\* computes it: (x * (500000 / division)) / 1000
TickMs(x, dv) ==
  FDiv(FMul(FromInt(x), FDiv(FromInt(500000), FromInt(dv))), FromInt(1000))

\* 2^-44, the distance from 500 to the next double
Ulp500 == [k |-> "num", s |-> 1, m |-> <<1>>, e |-> -44]

\* C4 as written: the file with division 480, Note-On 60 at tick 0 and
\* Note-Off 60 at tick 480 yields one note with midiNote 60, startTime 0
\* and duration 500.
C4_ExampleDuration500 ==
  (arrayBuffer = C4ExampleFile /\ midiData # NoData) =>
    /\ midiData.ok
    /\ Len(midiData.notes) = 1
    /\ midiData.notes[1].midiNote = 60
    /\ midiData.notes[1].startTime = FZero
    /\ midiData.notes[1].duration = FromInt(500)

\* C4 amended: a file with division > 0, no tempo event and one matched
\* pair at ticks a <= b yields exactly one note, whose startTime is
\* (a * (500000 / division)) / 1000 and whose duration is the larger of
\* endTime - startTime and 100, each operation rounded to a double; for
\* the example file that is startTime 0 and duration 500.00000000000006.
C4_PairYieldsOneNote ==
  /\ \A dv \in Divisions \ {0}, a \in Deltas, d \in Deltas, p \in Pitches :
       (arrayBuffer = PairFile(dv, a, d, p) /\ midiData # NoData) =>
         /\ midiData.ok
         /\ Len(midiData.notes) = 1
         /\ midiData.notes[1].index = 0
         /\ midiData.notes[1].midiNote = p
         /\ midiData.notes[1].startTime = TickMs(a, dv)
         /\ midiData.notes[1].duration =
              FMax(FSub(TickMs(a + d, dv), TickMs(a, dv)), FromInt(100))
  /\ (arrayBuffer = C4ExampleFile /\ midiData # NoData) =>
       /\ midiData.notes[1].startTime = FZero
       /\ midiData.notes[1].duration = FAdd(FromInt(500), Ulp500)

\* the example file has been parsed
C4_Witness ==
  /\ arrayBuffer = C4ExampleFile
  /\ midiData.ok
  /\ Len(midiData.notes) = 1

\* C13: a buffer of at least 14 bytes whose division field (bytes 12-13)
\* has its high bit set is rejected, and by a check that comes before the
\* track loop: the error is that of the header tag or that of the SMPTE
\* division, never one raised while reading a track.
C13_SmpteRejected ==
  (midiData # NoData /\ Len(arrayBuffer) >= 14 /\ arrayBuffer[13] >= 128) =>
    /\ ~midiData.ok
    /\ midiData.error \in {"Invalid MIDI file: Missing MThd header",
                           "SMPTE timing format not supported"}

\* an SMPTE file whose first track chunk has a wrong tag has been rejected
\* for its division
C13_Witness ==
  /\ Len(arrayBuffer) >= 18
  /\ SubSeq(arrayBuffer, 1, 4) = MThd
  /\ arrayBuffer[13] >= 128
  /\ SubSeq(arrayBuffer, 15, 18) # MTrk
  /\ midiData = Fail("SMPTE timing format not supported")

\* C14: a buffer shorter than 14 bytes is rejected with the size error,
\* whatever its bytes are: no error of a read (a wrong tag, an offset out
\* of bounds) comes before it.
C14_TooSmallRejected ==
  (midiData # NoData /\ Len(arrayBuffer) < 14) =>
    midiData = Fail("File too small to be a valid MIDI file")

\* a buffer that is empty, or one of 13 bytes, has been rejected
C14_Witness ==
  /\ midiData = Fail("File too small to be a valid MIDI file")
  /\ Len(arrayBuffer) \in {0, 13}

\* the n chunks read from offset o on, each from the offset readTrack
\* returned for the one before, all begin with 'MTrk'
RECURSIVE TaggedMTrk(_, _, _)
TaggedMTrk(view, o, n) ==
  \/ n = 0
  \/ /\ InBounds(view, o, 8)
     /\ SubSeq(view, o + 1, o + 4) = MTrk
     /\ readTrack(view, o).ok
     /\ TaggedMTrk(view, readTrack(view, o).newOffset, n - 1)

\* C15: parseMIDI returns a result only if the buffer begins with 'MThd'
\* and each of its trackCount track chunks begins with 'MTrk'; a buffer of
\* 14 bytes or more with another header tag is rejected with the header
\* error, and a wrong tag on a track chunk of an otherwise accepted file
\* with the track error: the result is the error alone, without the tracks
\* read before it.
C15_TagsRequired ==
  midiData # NoData =>
    /\ midiData.ok =>
          /\ SubSeq(arrayBuffer, 1, 4) = MThd
          /\ TaggedMTrk(arrayBuffer, 14, midiData.trackCount)
    /\ (Len(arrayBuffer) >= 14 /\ SubSeq(arrayBuffer, 1, 4) # MThd) =>
          midiData = Fail("Invalid MIDI file: Missing MThd header")
    /\ \A f \in BaseFiles : \A o \in TagOffsets(f) \ {0}, i \in 1..4, b \in {0, 77} :
          (f[13] < 128 /\ f[o + i] # b /\ arrayBuffer = [f EXCEPT ![o + i] = b]) =>
            midiData = Fail("Invalid track: Missing MTrk header")

\* a file of two tracks whose second chunk has a wrong tag has been rejected
\* after its first track was read
C15_Witness ==
  /\ Len(arrayBuffer) >= 35
  /\ SubSeq(arrayBuffer, 1, 4) = MThd
  /\ SubSeq(arrayBuffer, 15, 18) = MTrk
  /\ SubSeq(arrayBuffer, 32, 35) # MTrk
  /\ midiData = Fail("Invalid track: Missing MTrk header")

\* the first event of track t has no status byte
StartsRunning(t) == t # <<>> /\ t[1].bytes[1] < 128

\* C16: a track whose first event has no status byte makes the parse fail
\* with 'Running status without previous status', also when it is the second
\* track and the first one has left a status: each track starts without a
\* running status.
C16_RunningStatusNeedsStatus ==
  (midiData # NoData /\ arrayBuffer \in RunningFiles) =>
    /\ \A t \in RunningTracks(MaxRunEvents) :
         (arrayBuffer = FileBytes(480, <<t>>) /\ StartsRunning(t)) =>
           midiData = Fail("Running status without previous status")
    /\ \A t1 \in RunningTracks(1), t2 \in RunningTracks(MaxRunEvents - 1) :
         (/\ arrayBuffer = FileBytes(480, <<t1, t2>>)
          /\ (StartsRunning(t1) \/ StartsRunning(t2))) =>
           midiData = Fail("Running status without previous status")

\* a file whose first track is a Note-On and whose second track begins with
\* data bytes has been rejected
C16_Witness ==
  /\ arrayBuffer = FileBytes(480, << <<[d |-> 0, bytes |-> <<144, 60, 100>>]>>,
                                     <<[d |-> 0, bytes |-> <<62, 100>>]>> >>)
  /\ midiData = Fail("Running status without previous status")

\* the status byte of the last event before event k of track t that has
\* one among kinds (NoStatus if there is none)
LastStatus(t, k, kinds) ==
  LET js == {j \in 1..(k - 1) : t[j].bytes[1] \in kinds}
  IN  IF js = {} THEN NoStatus ELSE t[SetMax(js)].bytes[1]

\* event ev is the two data bytes read under status byte st
DecodedWith(ev, st, bytes) ==
  IF st = 255 THEN ev.type = "meta" /\ ev.metaType = bytes[1]
  ELSE IF st \in {240, 247} THEN ev.type = "sysex"
  ELSE /\ ev.type = "channel"
       /\ ev.channel = st % 16
       /\ ev.data1 = bytes[1]
       /\ ev.data2 = bytes[2]
       /\ ev.subtype = (IF st \div 16 = 8 \/ (st \div 16 = 9 /\ bytes[2] = 0)
                        THEN "noteOff"
                        ELSE IF st \div 16 = 9 THEN "noteOn" ELSE "none")

\* every event of track t without a status byte is, in events, decoded with
\* the last status byte among kinds before it
RunningDecoded(t, events, kinds) ==
  /\ Len(events) = Len(t)
  /\ \A k \in 1..Len(t) :
       t[k].bytes[1] < 128 =>
         DecodedWith(events[k], LastStatus(t, k, kinds), t[k].bytes)

\* C17 as written: an event without a status byte is decoded with the
\* status byte of the most recent event of its track that carried one,
\* whatever that event's kind (channel, meta 0xFF or SysEx 0xF0).
C17_RunningUsesLastStatusByte ==
  (arrayBuffer \in RunningFiles /\ midiData.ok) =>
    \A t \in RunningTracks(MaxRunEvents) :
      arrayBuffer = FileBytes(480, <<t>>) =>
        RunningDecoded(t, midiData.tracks[1], 128..255)

\* every event of track t without a status byte has a channel event with a
\* status byte before it
ChannelStatusSeen(t) ==
  \A k \in 1..Len(t) :
    t[k].bytes[1] < 128 => LastStatus(t, k, 128..239) # NoStatus

\* C17 amended: an event without a status byte is decoded with the status
\* byte of the most recent channel event of its track that carried one
\* (0x80..0xEF), its own first byte being the first data byte; meta and
\* SysEx events in between neither replace nor cancel that status.
C17_RunningUsesLastChannelStatus ==
  (arrayBuffer \in RunningFiles /\ midiData # NoData) =>
    /\ \A t \in RunningTracks(MaxRunEvents) :
         (arrayBuffer = FileBytes(480, <<t>>) /\ ChannelStatusSeen(t)) =>
           /\ midiData.ok
           /\ RunningDecoded(t, midiData.tracks[1], 128..239)
    /\ \A t1 \in RunningTracks(1), t2 \in RunningTracks(MaxRunEvents - 1) :
         (/\ arrayBuffer = FileBytes(480, <<t1, t2>>)
          /\ ChannelStatusSeen(t1) /\ ChannelStatusSeen(t2)) =>
           /\ midiData.ok
           /\ RunningDecoded(t1, midiData.tracks[1], 128..239)
           /\ RunningDecoded(t2, midiData.tracks[2], 128..239)

\* a Note-On, a Set-Tempo and two data bytes have been read: the data bytes
\* as a Note-On of pitch 62 on channel 0
C17_Witness ==
  /\ arrayBuffer = FileBytes(480, << <<[d |-> 0, bytes |-> <<144, 60, 100>>],
                                      [d |-> 0, bytes |-> <<255, 81, 3, 7, 161, 32>>],
                                      [d |-> 0, bytes |-> <<62, 100>>]>> >>)
  /\ midiData.ok
  /\ midiData.tracks[1][3].subtype = "noteOn"
  /\ midiData.tracks[1][3].note = 62
  /\ midiData.tracks[1][3].channel = 0

\* some track read has a Set-Tempo meta event (type 0x51) at tick 0
SetTempoAtTickZero ==
  \E n \in 1..Len(midiData.tracks) :
    \E k \in 1..Len(midiData.tracks[n]) :
      /\ midiData.tracks[n][k].type = "meta"
      /\ midiData.tracks[n][k].metaType = 81
      /\ SumDeltas(midiData.tracks[n], k) = 0

\* C18: the tempo map of a parsed file is never empty and its first entry
\* is at tick 0; that entry is the default tempo of 500000 microseconds per
\* quarter note whenever the file has no Set-Tempo event at tick 0.
C18_TempoMapStartsAtZero ==
  (midiData # NoData /\ midiData.ok) =>
    /\ Len(midiData.tempoMap) >= 1
    /\ midiData.tempoMap[1].tick = 0
    /\ ~SetTempoAtTickZero => midiData.tempoMap[1].tempo = DefaultTempo

\* a file whose only Set-Tempo is at tick 480 has been parsed: the default
\* tempo stands at tick 0 before it
C18_Witness ==
  /\ arrayBuffer = FileBytes(480, << <<SetTempoEv(480, 250000)>> >>)
  /\ midiData.ok
  /\ ~SetTempoAtTickZero
  /\ midiData.tempoMap = <<[tick |-> 0, tempo |-> DefaultTempo],
                           [tick |-> 480, tempo |-> 250000]>>

\* C19: the tempo map of a parsed file is strictly ordered by tick: no two
\* of its entries share a tick, also when the file has several Set-Tempo
\* events at one tick.
C19_TempoMapStrictlyOrdered ==
  (midiData # NoData /\ midiData.ok) =>
    \A n \in 1..(Len(midiData.tempoMap) - 1) :
      midiData.tempoMap[n].tick < midiData.tempoMap[n + 1].tick

\* C20: every event read has a delta time of 0 or more, whatever
\* variable-length quantity the reader accepted for it (of any number of
\* continuation bytes, accumulated with 32-bit shifts), so the absolute
\* ticks of a track are 0 or more and never decrease.
C20_DeltaTimesNonNegative ==
  (midiData # NoData /\ midiData.ok) =>
    \A n \in 1..Len(midiData.tracks) :
      \A k \in 1..Len(midiData.tracks[n]) :
        /\ midiData.tracks[n][k].deltaTime >= 0
        /\ SumDeltas(midiData.tracks[n], k) >= 0
        /\ SumDeltas(midiData.tracks[n], k - 1) <= SumDeltas(midiData.tracks[n], k)

\* the events read, of all tracks, in the order of their ticks (events of
\* one tick in the order read)
TickOrder == SortByTick(Flatten(midiData.tracks, Len(midiData.tracks)))

IsOn(x)  == x.event.type = "channel" /\ x.event.subtype = "noteOn"
IsOff(x) == x.event.type = "channel" /\ x.event.subtype = "noteOff"
SameKey(x, y) ==
  x.event.channel = y.event.channel /\ x.event.note = y.event.note

\* event j of evs is a Note-Off with a Note-On of its (channel, pitch) before
\* it and no Note-Off of that (channel, pitch) in between
Closes(evs, j) ==
  /\ IsOff(evs[j])
  /\ \E i \in 1..(j - 1) :
       /\ IsOn(evs[i]) /\ SameKey(evs[i], evs[j])
       /\ \A m \in (i + 1)..(j - 1) :
            ~(IsOff(evs[m]) /\ SameKey(evs[m], evs[j]))

\* as many notes of each pitch as there are Note-Offs of that pitch that
\* close a Note-On
OneNotePerClosingOff(evs, assembled) ==
  \A p \in {assembled[n].midiNote : n \in 1..Len(assembled)}
            \cup {evs[j].event.note : j \in {m \in 1..Len(evs) : IsOff(evs[m])}} :
    Cardinality({n \in 1..Len(assembled) : assembled[n].midiNote = p})
      = Cardinality({j \in 1..Len(evs) :
                       Closes(evs, j) /\ evs[j].event.note = p})

\* C21: unmatched events produce no note and no error: a file of Note-On
\* and Note-Off events in any order is parsed, and the notes returned are,
\* pitch by pitch, as many as the Note-Offs that follow in tick order a
\* Note-On of their (channel, pitch) not closed before; a Note-Off without
\* one and a Note-On still open at the end give none.
C21_UnmatchedEventsIgnored ==
  midiData # NoData =>
    /\ arrayBuffer \in ParseFiles => midiData.ok
    /\ midiData.ok => OneNotePerClosingOff(TickOrder, midiData.notes)

\* a file has been parsed that starts with a Note-Off of pitch 60 and ends
\* with a Note-On of pitch 62, with one pair of pitch 60 in between: one
\* note of pitch 60 is returned
C21_Witness ==
  /\ arrayBuffer = FileBytes(480, << <<NoteOffEv(0, 0, 60), NoteOnEv(0, 0, 60, 100),
                                      NoteOffEv(480, 0, 60), NoteOnEv(0, 0, 62, 100)>> >>)
  /\ midiData.ok
  /\ Len(midiData.notes) = 1
  /\ midiData.notes[1].midiNote = 60

\* the status byte event k of track t is read under: its own, or the last
\* status byte of a channel event before it
StatusOf(t, k) ==
  IF t[k].bytes[1] >= 128 THEN t[k].bytes[1] ELSE LastStatus(t, k, 128..239)

\* the three bytes of event k of track t, status byte included
FullBytes(t, k) ==
  IF t[k].bytes[1] >= 128 THEN t[k].bytes ELSE <<StatusOf(t, k)>> \o t[k].bytes

\* event k of track t is a Note-On (status 0x9n) of velocity 0
ZeroVelocityOn(t, k) ==
  StatusOf(t, k) \div 16 = 9 /\ FullBytes(t, k)[3] = 0

\* track t with every event given its status byte, and every Note-On of
\* velocity 0 written as a Note-Off (status 0x8n) of the same channel and
\* pitch
WithExplicitOffs(t) ==
  [k \in 1..Len(t) |->
     IF StatusOf(t, k) = NoStatus THEN t[k]
     ELSE IF ZeroVelocityOn(t, k)
     THEN NoteOffEv(t[k].d, StatusOf(t, k) % 16, FullBytes(t, k)[2])
     ELSE [d |-> t[k].d, bytes |-> FullBytes(t, k)]]

\* what was parsed of track t is what other, the result for the track with
\* explicit Note-Offs, is: the same notes, and every Note-On of velocity 0
\* read as a Note-Off
ZeroVelocityAsOff(t, parsed, other) ==
  /\ parsed.ok = other.ok
  /\ parsed.ok =>
       /\ parsed.notes = other.notes
       /\ \A k \in 1..Len(t) :
            ZeroVelocityOn(t, k) =>
              /\ parsed.tracks[1][k].subtype = "noteOff"
              /\ parsed.tracks[1][k].note = FullBytes(t, k)[2]
              /\ parsed.tracks[1][k].channel = StatusOf(t, k) % 16

\* C22: a Note-On of velocity 0, with its status byte or under running
\* status, is read as a Note-Off, and the notes of the file are those of
\* the file in which it is written as a Note-Off (0x8n) of the same channel
\* and pitch: it closes an open note as that one does and opens none.
C22_ZeroVelocityIsNoteOff ==
  (arrayBuffer \in ZeroFiles /\ midiData # NoData) =>
    \A t \in ZeroTracks :
      arrayBuffer = FileBytes(480, <<t>>) =>
        ZeroVelocityAsOff(t, midiData,
                          parseMIDI(FileBytes(480, <<WithExplicitOffs(t)>>)))

\* a Note-On of pitch 60 followed 480 ticks later by two data bytes of
\* velocity 0 has been parsed: the data bytes closed the note, which is
\* longer than the minimum
C22_Witness ==
  /\ arrayBuffer = FileBytes(480, << <<NoteOnEv(0, 0, 60, 100),
                                      [d |-> 480, bytes |-> <<60, 0>>]>> >>)
  /\ midiData.ok
  /\ midiData.tracks[1][2].subtype = "noteOff"
  /\ Len(midiData.notes) = 1
  /\ midiData.notes[1].midiNote = 60
  /\ ~FLe(midiData.notes[1].duration, FromInt(MinDuration))

\* the file read is one track of four events on one (channel, pitch), two
\* Note-Ons and then two Note-Offs at ticks that do not decrease, with a
\* positive division
TwoOnsTwoOffs ==
  /\ midiData.ok
  /\ midiData.division > 0
  /\ Len(midiData.tracks) = 1
  /\ Len(midiData.tracks[1]) = 4
  /\ \A k \in 1..4 :
       /\ midiData.tracks[1][k].type = "channel"
       /\ midiData.tracks[1][k].subtype = (IF k <= 2 THEN "noteOn" ELSE "noteOff")
       /\ midiData.tracks[1][k].channel = midiData.tracks[1][1].channel
       /\ midiData.tracks[1][k].note = midiData.tracks[1][1].note
       /\ midiData.tracks[1][k].deltaTime >= 0

\* C25: of On(t1), On(t2), Off(t3), Off(t4) on one (channel, pitch) exactly
\* one note is returned: it starts at the time of t2 and ends at the time
\* of t3 (or 100 ms after its start); the Note-On at t1 and the Note-Off at
\* t4 give none.
C25_OverlapKeepsSecondOn ==
  TwoOnsTwoOffs =>
    /\ Len(midiData.notes) = 1
    /\ midiData.notes[1].midiNote = midiData.tracks[1][1].note
    /\ midiData.notes[1].startTime
         = TickMs(SumDeltas(midiData.tracks[1], 2), midiData.division)
    /\ midiData.notes[1].duration
         = FMax(FSub(TickMs(SumDeltas(midiData.tracks[1], 3), midiData.division),
                     midiData.notes[1].startTime),
                FromInt(MinDuration))

\* Note-Ons of pitch 60 at ticks 0 and 480 and Note-Offs at ticks 960 and
\* 1440 have been parsed at division 480: one note, which starts at the
\* time of tick 480 and not at 0
C25_Witness ==
  /\ arrayBuffer = FileBytes(480, << <<NoteOnEv(0, 0, 60, 100), NoteOnEv(480, 0, 60, 100),
                                      NoteOffEv(480, 0, 60), NoteOffEv(480, 0, 60)>> >>)
  /\ TwoOnsTwoOffs
  /\ Len(midiData.notes) = 1
  /\ midiData.notes[1].startTime = TickMs(480, 480)
  /\ ~IsZero(midiData.notes[1].startTime)

\* r, what readTrack returned for the chunk at offset, ends where the chunk
\* says it ends: at its data (offset + 8) plus its declared length
EndsAtDeclaredEnd(view, offset, r) ==
  r.ok /\ r.newOffset = offset + 8 + getUint32(view, offset + 4)

\* the chunks read one after the other from offset on all end where they
\* say, each being read from the end of the one before
RECURSIVE ChunksEndAtDeclaredEnd(_, _, _)
ChunksEndAtDeclaredEnd(view, offset, remaining) ==
  \/ remaining = 0
  \/ /\ EndsAtDeclaredEnd(view, offset, readTrack(view, offset))
     /\ ChunksEndAtDeclaredEnd(view, offset + 8 + getUint32(view, offset + 4),
                               remaining - 1)

\* C29: in every file parseMIDI accepts, readTrack returns for each track
\* the offset of the track's data plus its declared length, so the next
\* track is read from the byte after the declared end and no event is read
\* across it.
C29_TracksEndAtDeclaredLength ==
  (midiData # NoData /\ midiData.ok) =>
    ChunksEndAtDeclaredEnd(arrayBuffer, 14, midiData.trackCount)

\* ------------------------------------------------------------------------
\* Properties of ticksToMilliseconds (under SpecConv)
\* ------------------------------------------------------------------------

\* the ticks of [0, t] that lie in segment k of the tempo map
SegmentTicks(t, tm, k) ==
  LET lo == tm[k].tick
      hi == IF k < Len(tm) /\ tm[k + 1].tick < t THEN tm[k + 1].tick ELSE t
  IN  IF hi > lo THEN hi - lo ELSE 0

\* the exact time of tick t in microseconds times division:
\* the sum over the segments of ticks * tempo
RECURSIVE ExactSum(_, _, _)
ExactSum(t, tm, k) ==
  IF k > Len(tm) THEN <<>>
  ELSE LAdd(LMul(LFromNat(SegmentTicks(t, tm, k)), LFromNat(tm[k].tempo)),
            ExactSum(t, tm, k + 1))

\* x >= 0 is numer / denom up to a relative error of n * 2^-52
WithinRounding(x, numer, denom, n) ==
  /\ IsNum(x)
  /\ x.s = 1
  /\ LET X    == LMul(IF x.e >= 0 THEN LShl(x.m, x.e) ELSE x.m, denom)
         N    == IF x.e >= 0 THEN numer ELSE LShl(numer, -x.e)
         diff == IF LCmp(X, N) >= 0 THEN LSub(X, N) ELSE LSub(N, X)
     IN  LCmp(LShl(diff, 52), LMulSmall(N, n)) <= 0

C3Example ==
  [ticks |-> 960, division |-> 480,
   tempoMap |-> <<[tick |-> 0, tempo |-> 500000],
                  [tick |-> 480, tempo |-> 250000]>>]

\* 2^-43, the distance from 750 to the next double
Ulp750 == [k |-> "num", s |-> 1, m |-> <<1>>, e |-> -43]

\* C3 as written: with breakpoints (0, 500000) and (480, 250000) and
\* division 480, tick 960 converts to exactly 750 ms.
C3_ExampleExactly750 ==
  (conv = C3Example /\ convMs # NoResult) => convMs = FromInt(750)

\* C3 amended: for a tempo map sorted by tick with first entry at tick 0
\* and a division > 0, the result is the sum over the tempo segments of
\* (ticks of the segment in [0, t]) * tempo / division / 1000 up to the
\* rounding of the double operations (a relative error of at most
\* (entries + 2) * 2^-52); the example converts to 750.0000000000001.
C3_PiecewiseUpToRounding ==
  convMs # NoResult =>
    /\ WithinRounding(convMs, ExactSum(conv.ticks, conv.tempoMap, 1),
                      LMul(LFromNat(conv.division), LFromNat(1000)),
                      Len(conv.tempoMap) + 2)
    /\ conv = C3Example => convMs = FAdd(FromInt(750), Ulp750)

\* a tick beyond a tempo change to a different tempo has been converted
C3_Witness ==
  /\ convMs # NoResult
  /\ Len(conv.tempoMap) >= 2
  /\ conv.tempoMap[2].tick > 0
  /\ conv.tempoMap[2].tick < conv.ticks
  /\ conv.tempoMap[2].tempo # conv.tempoMap[1].tempo

\* ------------------------------------------------------------------------
\* Properties of the timed sequencer (under Spec)
\* ------------------------------------------------------------------------

NoDuplicates(seq) ==
  \A i, j \in 1..Len(seq) : i # j => seq[i] # seq[j]

\* C5: when playback has been interrupted only by pause() with play()
\* following at once, no note index is announced a second time.
C5_PauseResumeAnnouncesOnce ==
  (interruptions = {"pause"} /\ resumedWith.t = leftAtPause.t)
    => NoDuplicates(playedLog)

\* C6: when playback has been interrupted only by setTempoMultiplier, no
\* note index is announced a second time.
C6_TempoChangeAnnouncesOnce ==
  interruptions = {"tempo"} => NoDuplicates(playedLog)

\* C7: no callback registered before a pause() or stop() changes the
\* player's state or announces a note after it.
C7_CancelledCallbacksStayDead == ~staleRan

\* the pending callbacks of kind "note", cancelled or not
NoteCallbacks == {n \in 1..Len(timers) : timers[n].kind = "note"}

\* C8: there is at most one pending note callback per note index.
C8_OneCallbackPerIndex ==
  \A n, k \in NoteCallbacks : n # k => timers[n].i # timers[k].i

\* play() has been entered again after an interruption and several note
\* callbacks are pending
C8_Witness ==
  /\ interruptions # {}
  /\ isPlaying
  /\ Cardinality(NoteCallbacks) >= 2

\* C9: the indices announced between a play() and the next pause() or
\* stop() are in strictly increasing order.
C9_IncreasingIndexOrder ==
  \A i, j \in 1..Len(firedSincePlay) :
    i < j => firedSincePlay[i] < firedSincePlay[j]

\* C10: after a click on Pause and a click on Resume at the same tempo
\* multiplier, every note that was pending at the pause has the wall delay
\* it had left then.
C10_ResumeKeepsDelays ==
  (interruptions = {"pause"} /\ resumedWith.m = leftAtPause.m) =>
    \A i \in DOMAIN resumedWith.delay \cap DOMAIN leftAtPause.delay :
      resumedWith.delay[i] = leftAtPause.delay[i]

\* the Stopped state: not playing, at index 0, no preserved offset and no
\* callback pending
Stopped ==
  /\ ~isPlaying
  /\ currentIndex = 0
  /\ IsZero(playbackStartOffset)
  /\ timers = <<>>

\* C11: the sequencer starts Stopped; stop(), called in any state (by the
\* Stop button or by a switch to the device tab), leaves it Stopped; pause()
\* while playing leaves it not playing, with no note callback pending and
\* currentIndex unchanged.
C11_StopAndPauseStates ==
  /\ Stopped
  /\ [][/\ (ClickStop \/ SwitchToDeviceTab) => Stopped'
        /\ ClickPause => /\ ~isPlaying'
                         /\ NoteCallbacks' = {}
                         /\ currentIndex' = currentIndex]_vars

\* C12: playback that nothing interrupts completes by itself: the last
\* note's callback fires and the callback it registers stops the sequencer.
\* Stated on the transitions in which a callback ends playback: the last
\* note (index Len(notes) - 1) has been announced since the play() that
\* started it.
C12_EndsAfterLastNote ==
  [][(TimerFires /\ isPlaying /\ ~isPlaying') =>
       \E j \in 1..Len(firedSincePlay) : firedSincePlay[j] = Len(notes) - 1]_vars

\* C23: a load that parseMIDI rejects does not reach onParsed: the note
\* list, the sequencer (index, playing state, offset, pending callbacks,
\* buttons) and state.midiData are as before the attempt, and the status
\* line shows the error message.
C23_FailedLoadKeepsState ==
  [][\A k \in DOMAIN PlaybackFiles :
       (LoadFile(k) /\ ~Parsed[k].ok) =>
         /\ UNCHANGED <<midiData, notes, currentIndex, isPlaying,
                        tempoMultiplier, playbackStartTime,
                        playbackStartOffset, disabled, timers>>
         /\ fileStatus'.className = "file-status error"
         /\ fileStatus'.message = Parsed[k].error]_vars

\* a file has been rejected during playback of the file loaded before
C23_Witness ==
  /\ fileStatus.className = "file-status error"
  /\ arrayBuffer = SmpteFile
  /\ midiData.ok
  /\ isPlaying
  /\ notes = midiData.notes

\* C24: setNotes replaces the note list and stops playback: after a load
\* that parseMIDI accepts the list is the new one, isPlaying is false,
\* currentIndex and the offset are 0 and no note callback is pending; and
\* in every state each pending note callback announces a note of the
\* current list, so none announces one of a list replaced before.
C24_SetNotesStopsPlayback ==
  /\ [](\A n \in NoteCallbacks :
          /\ timers[n].i < Len(notes)
          /\ timers[n].note = notes[timers[n].i + 1])
  /\ [][\A k \in DOMAIN PlaybackFiles :
          (LoadFile(k) /\ Parsed[k].ok) =>
            /\ notes' = Parsed[k].notes
            /\ ~isPlaying'
            /\ currentIndex' = 0
            /\ IsZero(playbackStartOffset')
            /\ NoteCallbacks' = {}]_vars

\* the second file has been loaded while the first one was playing its last
\* note: the sequencer is stopped on the new list
C24_Witness ==
  /\ arrayBuffer = HeldNoteFile
  /\ notes = Parsed[2].notes
  /\ \E n \in 1..Len(timers) :
       timers[n].kind = "end" /\ timers[n].note = Parsed[1].notes[2]
  /\ ~isPlaying
  /\ currentIndex = 0
  /\ NoteCallbacks = {}

\* C26: MIDI-device input is blocked during file playback only:
\* state.isFilePlayback is set only while the sequencer is playing, so a
\* device event that arrives while it is not playing (paused, stopped, or
\* played to the end) is handled.
C26_BlockedOnlyWhilePlaying ==
  /\ [](isFilePlayback => isPlaying)
  /\ [][(DeviceEvent /\ ~isPlaying) => ~deviceBlocked']_vars

\* C28: playback that starts in the Stopped state and that no user
\* operation follows announces every note once: when a callback ends it,
\* each index 0 .. n-1 has been announced exactly once since play().
C28_EveryNoteAnnouncedOnce ==
  [][(TimerFires /\ cleanPlay /\ isPlaying /\ ~isPlaying') =>
       \A i \in 0..(Len(notes) - 1) :
         Cardinality({j \in 1..Len(playedLog) : playedLog[j] = i}) = 1]_vars

\* ------------------------------------------------------------------------
\* Properties of the practice page (under SpecPractice, SpecPracticeLive)
\* ------------------------------------------------------------------------

\* the callback the browser runs next is the one registered by the last
\* note's callback
EndCallbackDue ==
  /\ PracticeDueTimer # 0
  /\ practice.sequencer.timers[PracticeDueTimer].kind = "end"

\* play() has just scheduled every note of the sequence from its start
ScheduledFromStart(s) ==
  /\ s.isPlaying
  /\ s.currentIndex = 0
  /\ s.playbackStartOffset = 0
  /\ s.sincePlay = 0
  /\ \A i \in 0..(Len(s.sequence) - 1) :
       Cardinality({n \in 1..Len(s.timers) :
                      /\ s.timers[n].kind = "note"
                      /\ s.timers[n].listed
                      /\ s.timers[n].i = i
                      /\ s.timers[n].left = s.sequence[i + 1].startTime}) = 1

InOrderFromStart(log) == \A j \in 1..Len(log) : log[j] = j - 1

\* Play was clicked with the sequencer at rest and loop on, and no user
\* operation has followed
LoopingUndisturbed ==
  /\ practice.hist.quiet
  /\ practice.sequencer.loopEnabled

\* C27: when the callback registered by the last note's callback runs with
\* the sequencer still playing, playback restarts from index 0 if
\* loopEnabled is true and otherwise stops with isPlaying false,
\* currentIndex 0 and offset 0; with loop on and no user operation the notes
\* of each pass are announced in order, each once before the restart, and
\* once no user operation can follow a full pass is completed again and
\* again.
C27_EndOfSequence ==
  /\ [][(PracticeTimerFires /\ EndCallbackDue /\ practice.sequencer.isPlaying)
        => IF practice.sequencer.loopEnabled
           THEN ScheduledFromStart(practice'.sequencer)
           ELSE /\ ~practice'.sequencer.isPlaying
                /\ practice'.sequencer.currentIndex = 0
                /\ practice'.sequencer.playbackStartOffset = 0]_vars
  /\ [](LoopingUndisturbed => InOrderFromStart(practice.hist.passLog))
  /\ [][(PracticeTimerFires /\ EndCallbackDue /\ LoopingUndisturbed)
        => Len(practice.hist.passLog) = Len(practice.sequencer.sequence)]_vars
  /\ [](( /\ LoopingUndisturbed
          /\ practice.hist.pops = MaxPracticeOps)
        => <>( /\ practice.hist.restarted
               /\ Len(practice.hist.passLog) = Len(practice.sequencer.sequence)))

\* a second pass of a looping pattern has announced its last note
C27_Witness ==
  /\ LoopingUndisturbed
  /\ practice.hist.restarted
  /\ practice.sequencer.isPlaying
  /\ Len(practice.sequencer.sequence) = 3
  /\ practice.hist.passLog = <<0, 1, 2>>

\* C30: state.isPlaying of the practice page equals the sequencer's
\* isPlaying in every state, and when a callback ends playback both are
\* false and the Play button is enabled.
C30_PageFlagFollowsSequencer ==
  /\ [](practice.state.isPlaying = practice.sequencer.isPlaying)
  /\ [][(PracticeTimerFires /\ practice.sequencer.isPlaying
           /\ ~practice'.sequencer.isPlaying)
        => /\ ~practice'.state.isPlaying
           /\ ~practice'.buttons.playBtn]_vars

====
